---------------------------- MODULE Spec2Model ----------------------------
(***************************************************************************)
(* A model of the BinaryIO library (BluFedora/BinaryIO).                   *)
(*                                                                         *)
(* Part I  - the buffered reader: IByteReader (read, refill,               *)
(*           setFailureState, fromBuffer) and CFileBufferedByteReader      *)
(*           (both revisions of its refill function kept in                *)
(*           src/src/binary_io.cpp).                                       *)
(* Part II - the IOStream dispatch table with its sticky error state and   *)
(*           the std::vector backend.                                      *)
(* Part III - the endian codec (writeLE, writeBE, readLE, readBE) over the *)
(*           ByteWriterView and the IByteReader.                           *)
(* Part IV - rel_ptr, the relative pointer, in both of its revisions.      *)
(* Part V  - the chunk format and its crc32 checksum.                      *)
(* Part VI - byteSwap16, byteSwap32 and byteSwap64 of byte_swap.hpp.       *)
(* Part VII - operator+= of the older interface's IOResult.                *)
(*                                                                         *)
(* Pointers are modelled as integer addresses.  Three disjoint memory      *)
(* regions exist: the caller's buffer handed to fromBuffer, the reader's   *)
(* m_LocalBuffer and the static s_ZeroBuffer of the failure stub.          *)
(***************************************************************************)
EXTENDS Integers, Sequences, FiniteSets, TLC

(***************************************************************************)
(* Bounds of the model.                                                    *)
(***************************************************************************)
\* Longest byte stream (file content / memory buffer) considered.
MaxStream == 3
\* Size of m_LocalBuffer (BUFSIZ in the program, scaled down).
BufSize == 2
\* Largest num_bytes passed to one read call.
MaxRead == 3
\* Bits of a byte (CHAR_BIT in the program, scaled down).
CharBit == 2
\* Bits of the offset_type of a rel_ptr (8 to 64 in the program, scaled down).
OffsetBits == 3
\* Largest num_elements of a rel_array.
MaxCount == 2
\* Bits of IOSize (64 in the program, scaled down); three of them hold the
\* error code of an IOResult.
IOSizeBits == 6
\* Longest payload of a chunk, in bytes.
MaxPayload == 2
\* Most calls of write() on one ByteWriterView.
MaxWrites == 4
\* Most results accumulated into one IOResult with operator+=.
MaxFold == 3

(***************************************************************************)
(* Program constants.                                                      *)
(***************************************************************************)
\* sizeof(s_ZeroBuffer)
ZeroBufSize == 16
\* Bits of std::uintptr_t and std::ptrdiff_t
PtrBits == 64
\* nullptr
NullPtr == 0
\* Address of the caller's buffer given to IByteReader::fromBuffer.
MemBase == 100
\* Address of CFileBufferedByteReader::m_LocalBuffer.
LocalBase == 200
\* Address of the static s_ZeroBuffer.
ZeroBase == 300

\* enum class IOResult (legacy) / IOErrorCode
Success == "Success"
EndOfStream == "EndOfStream"
AllocationFailure == "AllocationFailure"
ReadError == "ReadError"
SeekError == "SeekError"
InvalidData == "InvalidData"
InvalidOperation == "InvalidOperation"
UnknownError == "UnknownError"

IOErrorCode ==
  {Success, EndOfStream, AllocationFailure, ReadError, SeekError,
   InvalidData, InvalidOperation, UnknownError}

\* The codes a caller passes to setFailureState in the model.
FailureCodes == {EndOfStream, ReadError}

Min(a, b) == IF a <= b THEN a ELSE b

VARIABLES
  stream,    \* the bytes of the data source (file content or memory buffer)
  backend,   \* which constructor built the reader
  reader,    \* the IByteReader / CFileBufferedByteReader object
  file,      \* the FILE behind m_FileHandle: position and indicators
  proc,      \* "running", "aborted" (crash / abort) or "hung"
  op,        \* the last operation the caller invoked
  arg,       \* its argument
  ret,       \* its return value
  dst,       \* the bytes the last read copied to dst_bytes
  taken,     \* how many bytes of the stream the caller has taken so far
  terminal,  \* the code of the last failure transition, "None" before any
  pre,       \* what the last operation started from (see Before)
  ios,       \* the IOStream object and the data of its backend
  call,      \* the last call of the IO Stream API and what it returned
  codec,     \* the ByteWriterView, the integer written and the caller's output
  rel,       \* the rel_ptr object
  chunk,     \* a chunk: what was written, its bytes and what was read back
  peer       \* a second byte reader, over a backend of its own

vars == <<stream, backend, reader, file, proc, op, arg, ret, dst, taken, terminal, pre,
          ios, call, codec, rel, chunk, peer>>

\* The variables of the byte reader, and those of the IOStream.
readerVars == <<stream, backend, reader, file, proc, op, arg, ret, dst, taken, terminal, pre>>
streamVars == <<ios, call>>
codecVars == <<codec>>
relVars == <<rel>>
chunkVars == <<chunk>>
peerVars == <<peer>>

(***************************************************************************)
(* The reader's world: the objects an operation of the reader can touch.   *)
(***************************************************************************)
World == [r |-> reader, f |-> file, p |-> proc, taken |-> taken, terminal |-> terminal]

\* What an operation starts from, as far as the properties refer to it.
Before ==
  [last_result |-> reader.last_result,
   refill_fn |-> reader.refill_fn,
   exhausted |-> (reader.cursor = reader.buffer_end),
   nreads |-> file.nreads,
   taken |-> taken,
   terminal |-> terminal]

LocalEnd == LocalBase + BufSize

\* numBytesAvailable with bufferSize's operands: the size of the whole
\* window instead of its unread part.
numBytesAvailableWholeWindow(r) == r.buffer_end - r.buffer_start

\* IByteReader::numBytesAvailable
numBytesAvailable(r) == r.buffer_end - r.cursor

\* The byte stored at address a, as the reader r sees memory.
ByteAt(r, a) ==
  IF a >= MemBase /\ a < MemBase + Len(stream) THEN stream[a - MemBase + 1]
  ELSE IF a >= LocalBase /\ a < LocalEnd THEN r.m_LocalBuffer[a - LocalBase + 1]
  ELSE IF a >= ZeroBase /\ a < ZeroBase + ZeroBufSize THEN 0
  ELSE -1

\* The k bytes starting at address a.
BytesAt(r, a, k) == [i \in 1..k |-> ByteAt(r, a + i - 1)]


(***************************************************************************)
(* std::rotate(first, middle, last) over m_LocalBuffer: the elements of    *)
(* [middle, last) come first, those of [first, middle) follow.  The        *)
(* returned iterator is first + (last - middle).                           *)
(***************************************************************************)
RotateBuffer(buf, first, middle, last) ==
  LET a == first - LocalBase + 1
      m == middle - LocalBase + 1
      b == last - LocalBase
      n == last - first
      k == last - middle
  IN [i \in 1..Len(buf) |->
        IF i < a \/ i > b THEN buf[i]
        ELSE IF i - a < k THEN buf[m + (i - a)]
        ELSE buf[a + (i - a - k)]]

RotateResult(first, middle, last) == first + (last - middle)

(***************************************************************************)
(* std::fread(ptr, 1, n, file): the set of outcomes [f, k, data].  A call  *)
(* for zero bytes returns 0 and leaves the stream untouched.  A complete   *)
(* transfer delivers min(n, remaining) bytes and sets the end-of-file      *)
(* indicator when the end was hit; a failing transfer delivers fewer       *)
(* than n bytes and sets the error indicator.                              *)
(***************************************************************************)
fread(f, n) ==
  LET remaining == Len(stream) - f.pos
      deliver(k, eof, err) ==
        [f |-> [pos |-> f.pos + k, eof |-> eof, err |-> err,
                nreads |-> f.nreads + 1],
         k |-> k,
         data |-> [i \in 1..k |-> stream[f.pos + i]]]
  IN IF n = 0
       THEN {[f |-> f, k |-> 0, data |-> <<>>]}
       ELSE {deliver(Min(n, remaining), f.eof \/ n > remaining, f.err)}
            \cup {deliver(k, f.eof, TRUE) : k \in 0..Min(n - 1, remaining)}

\* The buffer with data stored from address write_start on.
StoreAt(buf, write_start, data) ==
  [i \in 1..Len(buf) |->
     LET j == i - (write_start - LocalBase)
     IN IF j >= 1 /\ j <= Len(data) THEN data[j] ELSE buf[i]]

\* A failure stub that reports a fixed EndOfStream instead of last_result.
FailureRefillFixedCode(w) ==
  {[w |-> [w EXCEPT !.r.buffer_start = ZeroBase,
                    !.r.cursor = ZeroBase,
                    !.r.buffer_end = ZeroBase + ZeroBufSize],
    ret |-> EndOfStream]}

\* A failure stub that leaves the window over s_ZeroBuffer empty.
FailureRefillEmptyWindow(w) ==
  {[w |-> [w EXCEPT !.r.buffer_start = ZeroBase,
                    !.r.cursor = ZeroBase,
                    !.r.buffer_end = ZeroBase],
    ret |-> w.r.last_result]}

\* A failure stub that returns one static result kept for all readers: the
\* error of the other reader once that one has failed.
FailureRefillStaticResult(w) ==
  {[w |-> [w EXCEPT !.r.buffer_start = ZeroBase,
                    !.r.cursor = ZeroBase,
                    !.r.buffer_end = ZeroBase + ZeroBufSize],
    ret |-> IF w = peer /\ reader.refill_fn = "failure" THEN reader.last_result
            ELSE IF w # peer /\ peer.r.refill_fn = "failure" THEN peer.r.last_result
            ELSE w.r.last_result]}

(***************************************************************************)
(* The refill stub installed by setFailureState: the window becomes the    *)
(* whole of s_ZeroBuffer and the current last_result is returned.          *)
(***************************************************************************)
FailureRefill(w) ==
  {[w |-> [w EXCEPT !.r.buffer_start = ZeroBase,
                    !.r.cursor = ZeroBase,
                    !.r.buffer_end = ZeroBase + ZeroBufSize],
    ret |-> w.r.last_result]}

\* IByteReader::setFailureState: record err, install the stub, refill().
setFailureState(w, err) ==
  FailureRefill([w EXCEPT !.r.last_result = err, !.r.refill_fn = "failure",
                          !.terminal = err])

\* A refill_fn of fromBuffer that returns EndOfStream and leaves the reader
\* as it is: no error state, no new window.
FromBufferRefillReturnsOnly(w) == {[w |-> w, ret |-> EndOfStream]}

\* The refill_fn of IByteReader::fromBuffer: a memory stream cannot be refilled.
FromBufferRefill(w) == setFailureState(w, EndOfStream)

\* A classification that takes every empty physical read for the end of
\* the file.
ClassifyEmptyReadAsEndOfStream(w) == setFailureState(w, EndOfStream)

\* The classification of a physical read that delivered no byte.
ClassifyEmptyRead(w) ==
  IF w.f.eof THEN setFailureState(w, EndOfStream)
  ELSE IF w.f.err THEN setFailureState(w, ReadError)
  ELSE setFailureState(w, UnknownError)

\* The first revision's refill_fn without the test for an empty physical read.
CFileRefillV1AlwaysSuccess(w) ==
  IF w.f.eof THEN setFailureState(w, EndOfStream)
  ELSE
    LET data_bgn == w.r.buffer_start
        read_end == w.r.cursor
        data_end == w.r.buffer_end
        rotated == RotateBuffer(w.r.m_LocalBuffer, data_bgn, read_end, data_end)
        write_start == RotateResult(data_bgn, read_end, data_end)
        num_bytes_in_buffer == LocalEnd - write_start
    IN UNION {
         LET w1 == [w EXCEPT !.f = fr.f,
                             !.r.m_LocalBuffer = StoreAt(rotated, write_start, fr.data)]
             num_bytes_read == fr.k
         IN IF num_bytes_read >= 0
              THEN {[w |-> [w1 EXCEPT !.r.buffer_start = data_bgn,
                                      !.r.cursor = data_bgn,
                                      !.r.buffer_end = write_start + num_bytes_read],
                     ret |-> Success]}
              ELSE ClassifyEmptyRead(w1)
         : fr \in fread(w.f, num_bytes_in_buffer) }

(***************************************************************************)
(* The refill_fn of CFileBufferedByteReader, first revision                *)
(* (binary_io.cpp 196-231): unread bytes are rotated to the front of the   *)
(* window, the rest of m_LocalBuffer is filled by one fread.               *)
(***************************************************************************)
CFileRefillV1(w) ==
  IF w.f.eof THEN setFailureState(w, EndOfStream)
  ELSE
    LET data_bgn == w.r.buffer_start
        read_end == w.r.cursor
        data_end == w.r.buffer_end
        rotated == RotateBuffer(w.r.m_LocalBuffer, data_bgn, read_end, data_end)
        write_start == RotateResult(data_bgn, read_end, data_end)
        num_bytes_in_buffer == LocalEnd - write_start
    IN UNION {
         LET w1 == [w EXCEPT !.f = fr.f,
                             !.r.m_LocalBuffer = StoreAt(rotated, write_start, fr.data)]
             num_bytes_read == fr.k
         IN IF num_bytes_read # 0 \/ num_bytes_in_buffer = 0
              THEN {[w |-> [w1 EXCEPT !.r.buffer_start = data_bgn,
                                      !.r.cursor = data_bgn,
                                      !.r.buffer_end = write_start + num_bytes_read],
                     ret |-> Success]}
              ELSE ClassifyEmptyRead(w1)
         : fr \in fread(w.f, num_bytes_in_buffer) }

(***************************************************************************)
(* The refill_fn of CFileBufferedByteReader, second revision               *)
(* (binary_io.cpp 456-494).  The constructor leaves cursor == nullptr, so  *)
(* the first refill calls std::rotate with a middle iterator outside       *)
(* [first, last]: undefined behaviour.  Its outcomes are a crash, or a     *)
(* rotate that returns some iterator of [first, last]; m_LocalBuffer is    *)
(* still all zero then, so a permutation of it changes nothing.            *)
(***************************************************************************)
CFileRefillV2(w) ==
  IF w.f.eof THEN setFailureState(w, EndOfStream)
  ELSE
    LET local_buffer_cursor == w.r.cursor
        defined == local_buffer_cursor >= LocalBase /\ local_buffer_cursor <= LocalEnd
        rotated == IF defined
                     THEN RotateBuffer(w.r.m_LocalBuffer, LocalBase, local_buffer_cursor, LocalEnd)
                     ELSE w.r.m_LocalBuffer
        starts == IF defined
                    THEN {RotateResult(LocalBase, local_buffer_cursor, LocalEnd)}
                    ELSE LocalBase..LocalEnd
        crash == IF defined THEN {} ELSE {[w |-> [w EXCEPT !.p = "aborted"], ret |-> Success]}
    IN crash \cup UNION {
         UNION {
           LET w1 == [w EXCEPT !.f = fr.f,
                               !.r.m_LocalBuffer = StoreAt(rotated, write_start, fr.data)]
               num_bytes_read == fr.k
           IN IF num_bytes_read # 0
                THEN {[w |-> [w1 EXCEPT !.r.buffer_start = write_start,
                                        !.r.cursor = write_start,
                                        !.r.buffer_end = write_start + num_bytes_read],
                       ret |-> Success]}
                ELSE ClassifyEmptyRead(w1)
           : fr \in fread(w.f, LocalEnd - write_start) }
         : write_start \in starts }

\* IByteReader::refill: refill_fn(this).
refill(w) ==
  CASE w.r.refill_fn = "fromBuffer" -> FromBufferRefill(w)
    [] w.r.refill_fn = "cfile_v1" -> CFileRefillV1(w)
    [] w.r.refill_fn = "cfile_v2" -> CFileRefillV2(w)
    [] w.r.refill_fn = "failure" -> FailureRefill(w)

\* The window of r lies in s_ZeroBuffer, not in data of the stream.
InZeroBuffer(r) == r.buffer_start >= ZeroBase /\ r.buffer_end <= ZeroBase + ZeroBufSize

\* cursor += k; bytes of a window over stream data count as taken.
Advance(w, k) ==
  [w EXCEPT !.r.cursor = w.r.cursor + k,
            !.taken = IF InZeroBuffer(w.r) THEN w.taken ELSE w.taken + k]

(***************************************************************************)
(* IByteReader::read: the set of outcomes [w, dst] of copying `left` more  *)
(* bytes, dst being what has been copied so far.  An iteration that        *)
(* copies nothing while the error state is Success would repeat forever    *)
(* in the program; the model marks the process "hung" there.               *)
(***************************************************************************)
RECURSIVE ReadLoop(_, _, _)
ReadLoop(w, left, copied) ==
  IF left = 0 THEN {[w |-> w, dst |-> copied]}
  ELSE
    LET refilled == IF w.r.cursor = w.r.buffer_end
                      THEN {o.w : o \in refill(w)}
                      ELSE {w}
    IN UNION {
         IF w1.p # "running" \/ w1.r.last_result # Success
           THEN {[w |-> w1, dst |-> copied]}
           ELSE
             LET num_bytes_left_to_read == left
                 num_bytes_available_to_read == numBytesAvailable(w1.r)
                 num_bytes_able_to_read ==
                   Min(num_bytes_left_to_read, num_bytes_available_to_read)
                 w2 == Advance(w1, num_bytes_able_to_read)
                 bytes == BytesAt(w1.r, w1.r.cursor, num_bytes_able_to_read)
             IN IF num_bytes_able_to_read = 0
                  THEN {[w |-> [w1 EXCEPT !.p = "hung"], dst |-> copied]}
                  ELSE ReadLoop(w2, left - num_bytes_able_to_read, copied \o bytes)
         : w1 \in refilled }

\* A read that drops what is left of the window before it starts.
readDroppingWindow(w, num_bytes) ==
  {[w |-> o.w, dst |-> o.dst, ret |-> o.w.r.last_result]
     : o \in ReadLoop([w EXCEPT !.r.cursor = w.r.buffer_end], num_bytes, <<>>)}

\* IByteReader::read(dst_bytes, num_bytes): outcomes [w, dst, ret].
read(w, num_bytes) ==
  {[w |-> o.w, dst |-> o.dst, ret |-> o.w.r.last_result]
     : o \in ReadLoop(w, num_bytes, <<>>)}


(***************************************************************************)
(* Construction.                                                           *)
(***************************************************************************)
ZeroedLocalBuffer == [i \in 1..BufSize |-> 0]

\* IByteReader::fromBuffer(buffer, buffer_size)
fromBuffer(buffer, buffer_size) ==
  [buffer_start |-> buffer, cursor |-> buffer, buffer_end |-> buffer + buffer_size,
   last_result |-> Success, refill_fn |-> "fromBuffer",
   m_LocalBuffer |-> ZeroedLocalBuffer]

\* CFileBufferedByteReader::CFileBufferedByteReader(file), first revision
CFileBufferedByteReaderV1 ==
  [buffer_start |-> LocalBase, cursor |-> LocalBase, buffer_end |-> LocalBase,
   last_result |-> Success, refill_fn |-> "cfile_v1",
   m_LocalBuffer |-> ZeroedLocalBuffer]

\* CFileBufferedByteReader::CFileBufferedByteReader(file), second revision
CFileBufferedByteReaderV2 ==
  [buffer_start |-> NullPtr, cursor |-> NullPtr, buffer_end |-> NullPtr,
   last_result |-> Success, refill_fn |-> "cfile_v2",
   m_LocalBuffer |-> ZeroedLocalBuffer]

\* A freshly opened FILE positioned at its start.
OpenedFile == [pos |-> 0, eof |-> FALSE, err |-> FALSE, nreads |-> 0]

\* The byte streams considered: byte i of a stream carries the value i.
Streams == {[i \in 1..n |-> i] : n \in 0..MaxStream}

\* No IOStream has been made; no call of the IO Stream API yet.
\* (Also IOStream{}: every slot null, error_state Success.)
NoStream == [kind |-> "none", slots |-> {}, data |-> <<>>, cursor |-> 0,
             medium_error |-> FALSE, error_state |-> Success]
NoCall == [op |-> "none", arg |-> 0, ret |-> 0, event |-> "none",
           read_failed |-> FALSE, sized_in_error |-> FALSE, from |-> NoStream,
           origin |-> "none"]

\* No ByteWriterView and no integer to write; no rel_ptr.
NoCodec == [T |-> [size |-> 0, signed |-> FALSE], value |-> 0, order |-> "none",
            writer |-> [last_result |-> Success], nwrites |-> 0, nwrites_before |-> 0,
            ncallbacks |-> 0, ncallbacks_before |-> 0, last_before |-> Success,
            failed |-> Success,
            bytes |-> <<>>,
            opened |-> FALSE, len |-> 0, out |-> 0, out_before |-> 0]
NoRelPtr == [rev |-> "none", signed |-> TRUE, alignment |-> 1, self |-> 0, offset |-> 0,
             was |-> 0, num_elements |-> 0, copy_self |-> 0, copy_offset |-> 0]
\* No second reader.
NoPeer == [r |-> fromBuffer(MemBase, 0), f |-> OpenedFile, p |-> "none", taken |-> 0,
           terminal |-> "None"]
\* No chunk.
NoChunk == [rev |-> "none", seed |-> 0, phase |-> "none", type_id |-> 0, version |-> 0,
            payload |-> <<>>, bytes |-> <<>>, read |-> <<>>]

\* The reader made over a backend of the given kind.
ReaderOver(kind) ==
  CASE kind = "memory" -> fromBuffer(MemBase, Len(stream))
    [] kind = "cfile_v1" -> CFileBufferedByteReaderV1
    [] kind = "cfile_v2" -> CFileBufferedByteReaderV2

Init ==
  /\ stream \in Streams
  /\ backend \in {"memory", "cfile_v1", "cfile_v2"}
  /\ reader = ReaderOver(backend)
  /\ file = OpenedFile
  /\ proc = "running"
  /\ op = "init"
  /\ arg = 0
  /\ ret = Success
  /\ dst = <<>>
  /\ taken = 0
  /\ terminal = "None"
  /\ pre = Before
  /\ ios = NoStream
  /\ call = NoCall
  /\ codec = NoCodec
  /\ chunk = NoChunk
  /\ peer = NoPeer
  /\ rel = NoRelPtr

(***************************************************************************)
(* The caller's operations.  Every call runs to completion before the      *)
(* next one starts (the library is synchronous and single threaded).       *)
(***************************************************************************)
BecomeReader(w) ==
  /\ reader' = w.r
  /\ file' = w.f
  /\ proc' = w.p
  /\ taken' = w.taken
  /\ terminal' = w.terminal
  /\ pre' = Before
  /\ UNCHANGED <<stream, backend>>

Become(w) == BecomeReader(w) /\ UNCHANGED <<streamVars, codecVars, relVars, chunkVars, peerVars>>

\* reader.read(dst_bytes, n)
Read(n) ==
  /\ proc = "running"
  /\ \E o \in read(World, n) :
       /\ Become(o.w)
       /\ op' = "read" /\ arg' = n /\ ret' = o.ret /\ dst' = o.dst

\* reader.refill(), called as its contract asks: with the window used up.
Refill ==
  /\ proc = "running"
  /\ reader.cursor = reader.buffer_end
  /\ \E o \in refill(World) :
       /\ Become(o.w)
       /\ op' = "refill" /\ arg' = 0 /\ ret' = o.ret /\ dst' = <<>>

\* The caller reads k bytes from the live buffer and moves the cursor itself.
Consume(k) ==
  /\ proc = "running"
  /\ k <= numBytesAvailable(reader)
  /\ Become(Advance(World, k))
  /\ op' = "consume" /\ arg' = k /\ ret' = reader.last_result
  /\ dst' = BytesAt(reader, reader.cursor, k)

\* reader.setFailureState(err), called from outside a refill.
SetFailureState(err) ==
  /\ proc = "running"
  /\ \E o \in setFailureState(World, err) :
       /\ Become(o.w)
       /\ op' = "setFailureState" /\ arg' = err /\ ret' = o.ret /\ dst' = <<>>

\* The explicit reset of the sticky error state.
ResetErrorState ==
  /\ proc = "running"
  /\ reader.last_result # Success
  /\ Become([World EXCEPT !.r.last_result = Success])
  /\ op' = "reset" /\ arg' = 0 /\ ret' = Success /\ dst' = <<>>

Next ==
  \/ \E n \in 0..MaxRead : Read(n)
  \/ Refill
  \/ \E k \in 1..MaxRead : Consume(k)
  \/ \E err \in FailureCodes : SetFailureState(err)
  \/ ResetErrorState

Spec == Init /\ [][Next]_vars

\* reader.refill() called while unread bytes remain: IByteReader::refill
\* is refill_fn(this), whatever the cursor.
RefillWithUnread ==
  /\ proc = "running"
  /\ reader.cursor # reader.buffer_end
  /\ \E o \in refill(World) :
       /\ Become(o.w)
       /\ op' = "refill" /\ arg' = 0 /\ ret' = o.ret /\ dst' = <<>>

\* The reader with callers that do not keep to the protocol of refill.
NextProtocol ==
  \/ Next
  \/ RefillWithUnread

SpecProtocol == Init /\ [][NextProtocol]_vars

\* The reader with a caller that only reads and refills: the error state
\* is entered by a refill alone and is never reset.
NextReading ==
  \/ \E n \in 0..MaxRead : Read(n)
  \/ Refill

SpecReading == Init /\ [][NextReading]_vars

(***************************************************************************)
(* Two readers.  reader is the first, with its FILE in file; peer is the   *)
(* second, an IByteReader object of its own with a FILE or a memory        *)
(* buffer of its own holding the same bytes as the first one's.  Each has  *)
(* its own cursor, window, m_LocalBuffer and error state; the addresses of *)
(* s_ZeroBuffer are the same for both.  A step is one whole call on one of *)
(* the two readers.  The first reads a file (first revision), the second   *)
(* a file or memory, and a read asks for more bytes than a window holds.   *)
(***************************************************************************)
InitPair ==
  /\ stream \in {s \in Streams : Len(s) = MaxStream}
  /\ backend = "cfile_v1"
  /\ reader = ReaderOver(backend)
  /\ file = OpenedFile
  /\ proc = "running"
  /\ op = "init" /\ arg = 0 /\ ret = Success /\ dst = <<>>
  /\ taken = 0
  /\ terminal = "None"
  /\ pre = Before
  /\ ios = NoStream
  /\ call = NoCall
  /\ codec = NoCodec
  /\ chunk = NoChunk
  /\ rel = NoRelPtr
  /\ \E kind \in {"memory", "cfile_v1"} :
       peer = [r |-> ReaderOver(kind), f |-> OpenedFile, p |-> "running", taken |-> 0,
               terminal |-> "None"]

\* The calls on the second reader: read, refill and setFailureState.
PeerBecomes(w) ==
  /\ peer' = w
  /\ UNCHANGED <<readerVars, streamVars, codecVars, relVars, chunkVars>>

PeerRead(n) ==
  /\ peer.p = "running"
  /\ \E o \in read(peer, n) : PeerBecomes(o.w)

PeerRefill ==
  /\ peer.p = "running"
  /\ peer.r.cursor = peer.r.buffer_end
  /\ \E o \in refill(peer) : PeerBecomes(o.w)

PeerSetFailureState(err) ==
  /\ peer.p = "running"
  /\ \E o \in setFailureState(peer, err) : PeerBecomes(o.w)

NextPair ==
  \/ Read(MaxRead)
  \/ Refill
  \/ \E err \in FailureCodes : SetFailureState(err)
  \/ PeerRead(MaxRead)
  \/ PeerRefill
  \/ \E err \in FailureCodes : PeerSetFailureState(err)

SpecPair == InitPair /\ [][NextPair]_vars

(***************************************************************************)
(* Part II.  The IOStream: five operation slots, the backend's user data   *)
(* and one sticky error_state.  An IOResult packs a value and an error     *)
(* code into one integer: value << 3 | code.                               *)
(***************************************************************************)
\* enum class IOErrorCode, in the order of its enumerators.
ErrorCodes ==
  <<Success, EndOfStream, AllocationFailure, ReadError, SeekError, InvalidData,
    InvalidOperation, UnknownError>>

CodeValue(error_code) == CHOOSE i \in 0..7 : ErrorCodes[i + 1] = error_code

\* IOResult(valid_value, error_code), IOResult::ErrorCode(), IOResult::Value()
\* The packing with a code field of two bits.
IOResultTwoBitCode(valid_value, error_code) ==
  ((valid_value * 4) % (2^IOSizeBits)) + CodeValue(error_code)

\* valid_value << 3 | IOSize(error_code) in IOSize arithmetic: the shift
\* drops the bits above the width and leaves the low three bits zero.
IOResult(valid_value, error_code) ==
  ((valid_value * 8) % (2^IOSizeBits)) + CodeValue(error_code)
\* IOResult(error_code) and IOResult(valid_value)
IOResult_FromErrorCode(error_code) == IOResult(0, error_code)
IOResult_FromValue(valid_value) == IOResult(valid_value, Success)
ErrorCode(result) == ErrorCodes[(result % 8) + 1]
Value(result) == result \div 8

\* The Size slot of IOStream_FromVector: buffer->size().
VectorSize(s) == IOResult(Len(s.data), Success)

\* MemoryStream_CopyBytes: copies what both sides allow of the desired
\* count, advances the cursor by it and reports a short copy as EndOfStream.
MemoryStream_CopyBytes(num_destination_bytes, num_source_bytes, desired_number_of_bytes) ==
  LET k == Min(desired_number_of_bytes, Min(num_destination_bytes, num_source_bytes))
  IN [k |-> k,
      ret |-> IOResult(k, IF k < desired_number_of_bytes THEN EndOfStream ELSE Success)]

\* The Read slot of IOStream_FromVector.
VectorRead(s, num_destination_bytes) ==
  LET c == MemoryStream_CopyBytes(num_destination_bytes, Len(s.data) - s.cursor,
                                  num_destination_bytes)
  IN {[s |-> [s EXCEPT !.cursor = s.cursor + c.k], ret |-> c.ret]}

\* buffer->resize(new_size): the vector grown with zero bytes, or
\* std::bad_alloc; no vector grows beyond MaxStream bytes.
VectorResize(buffer, new_size) ==
  (IF new_size <= MaxStream
     THEN {[ok |-> TRUE, buffer |-> [i \in 1..new_size |->
                                       IF i <= Len(buffer) THEN buffer[i] ELSE 0]]}
     ELSE {})
  \cup {[ok |-> FALSE, buffer |-> buffer]}

\* The Write slot of IOStream_FromVector.
VectorWrite(s, source) ==
  LET num_source_bytes == Len(source)
      needed_size == s.cursor + num_source_bytes
      resized == IF needed_size > Len(s.data)
                   THEN VectorResize(s.data, needed_size)
                   ELSE {[ok |-> TRUE, buffer |-> s.data]}
  IN { IF ~r.ok
         THEN [s |-> s, ret |-> IOResult(0, AllocationFailure)]
         ELSE LET c == MemoryStream_CopyBytes(Len(r.buffer) - s.cursor, num_source_bytes,
                                              num_source_bytes)
              IN [s |-> [s EXCEPT !.data = [i \in 1..Len(r.buffer) |->
                                              IF i > s.cursor /\ i <= s.cursor + c.k
                                                THEN source[i - s.cursor]
                                                ELSE r.buffer[i]],
                                  !.cursor = s.cursor + c.k],
                  ret |-> c.ret]
       : r \in resized }

\* A Seek slot that stops at the end of the vector instead of growing it.
VectorSeekWithinVector(s, offset, seek_origin) ==
  LET final_seek_pos == offset + (IF seek_origin = "CURRENT" THEN s.cursor
                                  ELSE IF seek_origin = "END" THEN Len(s.data)
                                  ELSE 0)
  IN IF final_seek_pos >= 0
       THEN {[s |-> [s EXCEPT !.cursor = Min(final_seek_pos, Len(s.data))],
              ret |-> IOResult(0, Success)]}
       ELSE {[s |-> s, ret |-> IOResult(0, SeekError)]}

\* A Seek slot that moves the cursor before it knows whether the position
\* can be had: to the position asked for when the vector cannot grow, to
\* the beginning when the position is negative.
VectorSeekMovingFirst(s, offset, seek_origin) ==
  LET final_seek_pos == offset + (IF seek_origin = "CURRENT" THEN s.cursor
                                  ELSE IF seek_origin = "END" THEN Len(s.data)
                                  ELSE 0)
  IN IF final_seek_pos >= 0
       THEN IF final_seek_pos > Len(s.data)
              THEN { IF r.ok
                       THEN [s |-> [s EXCEPT !.data = r.buffer, !.cursor = final_seek_pos],
                             ret |-> IOResult(0, Success)]
                       ELSE [s |-> [s EXCEPT !.cursor = final_seek_pos],
                             ret |-> IOResult(0, AllocationFailure)]
                     : r \in VectorResize(s.data, final_seek_pos) }
              ELSE {[s |-> [s EXCEPT !.cursor = final_seek_pos],
                     ret |-> IOResult(0, Success)]}
       ELSE {[s |-> [s EXCEPT !.cursor = 0], ret |-> IOResult(0, SeekError)]}

\* The Seek slot of IOStream_FromVector.
VectorSeek(s, offset, seek_origin) ==
  LET final_seek_pos == offset + (IF seek_origin = "CURRENT" THEN s.cursor
                                  ELSE IF seek_origin = "END" THEN Len(s.data)
                                  ELSE 0)
  IN IF final_seek_pos >= 0
       THEN IF final_seek_pos > Len(s.data)
              THEN { IF r.ok
                       THEN [s |-> [s EXCEPT !.data = r.buffer, !.cursor = final_seek_pos],
                             ret |-> IOResult(0, Success)]
                       ELSE [s |-> s, ret |-> IOResult(0, AllocationFailure)]
                     : r \in VectorResize(s.data, final_seek_pos) }
              ELSE {[s |-> [s EXCEPT !.cursor = final_seek_pos],
                     ret |-> IOResult(0, Success)]}
       ELSE {[s |-> s, ret |-> IOResult(0, SeekError)]}

\* The Size slot of IOStream_FromCFile: the length of the file.
CFileSize(s) == IOResult(Len(s.data), Success)

\* The Read slot of IOStream_FromCFile: one physical read, which may fall
\* short at the end of the file or fail with the error indicator set.
CFileRead(s, num_destination_bytes) ==
  LET remaining == Len(s.data) - s.cursor
      k == Min(num_destination_bytes, remaining)
  IN (IF s.medium_error THEN {}
      ELSE {[s |-> [s EXCEPT !.cursor = s.cursor + k],
             ret |-> IOResult(k, IF k < num_destination_bytes THEN EndOfStream ELSE Success)]})
     \cup {[s |-> [s EXCEPT !.cursor = s.cursor + j, !.medium_error = TRUE],
            ret |-> IOResult(j, ReadError)]
             : j \in 0..Min(num_destination_bytes - 1, remaining)}

\* The sticky error: a new error is recorded only if none is set.
RecordError(s, error_code) ==
  IF s.error_state = Success THEN [s EXCEPT !.error_state = error_code] ELSE s

\* IOSteam_SupportsRead / Write / Seek: the slot is bound.
IOSteam_SupportsRead(s) == "Read" \in s.slots
IOSteam_SupportsWrite(s) == "Write" \in s.slots
IOSteam_SupportsSeek(s) == "Seek" \in s.slots

\* A call of an unbound slot: InvalidOperation, nothing else touched.
Unsupported(s) == {[s |-> RecordError(s, InvalidOperation), ret |-> IOResult(0, InvalidOperation)]}

\* A call on a stream whose error is set already reports that error.
AlreadyFailed(s) == {[s |-> s, ret |-> IOResult(0, s.error_state)]}

\* The result of a backend slot, its error recorded in error_state.
Dispatched(outcomes) ==
  {[s |-> RecordError(o.s, ErrorCode(o.ret)), ret |-> o.ret] : o \in outcomes}

\* IOStream_Size without the sticky error: the backend's answer, always.
IOStream_SizeOfBackendOnly(s) ==
  IF "Size" \notin s.slots THEN Unsupported(s)
  ELSE {[s |-> s, ret |-> IF s.kind = "vector" THEN VectorSize(s) ELSE CFileSize(s)]}

\* IOStream_Size: InvalidOperation if the slot is unbound; the already set
\* error if there is one; else the backend's result.
IOStream_Size(s) ==
  IF "Size" \notin s.slots THEN Unsupported(s)
  ELSE IF s.error_state # Success THEN AlreadyFailed(s)
  ELSE Dispatched({[s |-> s, ret |-> IF s.kind = "vector" THEN VectorSize(s)
                                                           ELSE CFileSize(s)]})

\* IOStream_Read that lets a null Read slot pass for a read of nothing.
IOStream_ReadUnchecked(s, num_destination_bytes) ==
  IF s.error_state # Success THEN AlreadyFailed(s)
  ELSE IF num_destination_bytes = 0 THEN {[s |-> s, ret |-> IOResult(0, Success)]}
  ELSE IF ~IOSteam_SupportsRead(s) THEN Unsupported(s)
  ELSE Dispatched(IF s.kind = "vector" THEN VectorRead(s, num_destination_bytes)
                                       ELSE CFileRead(s, num_destination_bytes))

\* IOStream_Read: InvalidOperation if the slot is unbound; the already set
\* error if there is one; a read of zero bytes succeeds without the
\* backend; else the backend's result.
IOStream_Read(s, num_destination_bytes) ==
  IF ~IOSteam_SupportsRead(s) THEN Unsupported(s)
  ELSE IF s.error_state # Success THEN AlreadyFailed(s)
  ELSE IF num_destination_bytes = 0 THEN {[s |-> s, ret |-> IOResult(0, Success)]}
  ELSE Dispatched(IF s.kind = "vector" THEN VectorRead(s, num_destination_bytes)
                                       ELSE CFileRead(s, num_destination_bytes))

\* IOStream_Write: as IOStream_Read, for the Write slot.
IOStream_Write(s, source) ==
  IF ~IOSteam_SupportsWrite(s) THEN Unsupported(s)
  ELSE IF s.error_state # Success THEN AlreadyFailed(s)
  ELSE IF Len(source) = 0 THEN {[s |-> s, ret |-> IOResult(0, Success)]}
  ELSE Dispatched(VectorWrite(s, source))

\* IOStream_Seek: InvalidOperation if the slot is unbound; the already set
\* error if there is one; else the backend's result.
IOStream_Seek(s, offset, seek_origin) ==
  IF ~IOSteam_SupportsSeek(s) THEN Unsupported(s)
  ELSE IF s.error_state # Success THEN AlreadyFailed(s)
  ELSE Dispatched(VectorSeek(s, offset, seek_origin))

\* IOStream_ResetErrorState: error_state = Success, the old state returned.
IOStream_ResetErrorState(s) ==
  {[s |-> [s EXCEPT !.error_state = Success], ret |-> s.error_state]}

\* IOStream_FromVector(buffer): Size, Read, Write and Seek bound, Close null.
IOStream_FromVector(buffer) ==
  [kind |-> "vector", slots |-> {"Size", "Read", "Write", "Seek"}, data |-> buffer,
   cursor |-> 0, medium_error |-> FALSE, error_state |-> Success]

\* IOStream_FromCFile(file_handle), for a file opened for reading: a
\* stream that can be sized and read, and neither written nor sought.
IOStream_FromCFile(file_handle) ==
  [kind |-> "cfile", slots |-> {"Size", "Read", "Close"}, data |-> file_handle,
   cursor |-> 0, medium_error |-> FALSE, error_state |-> Success]

\* IOStream{} over some user data: no slot bound.
IOStream_Unbound(bytes) == [NoStream EXCEPT !.data = bytes]

\* enum class SeekOrigin, and the arguments of the calls in the model.
SeekOrigin == {"BEGIN", "CURRENT", "END"}
SeekOffsets == (0 - MaxRead)..MaxRead
Sources == {[i \in 1..n |-> MaxStream + i] : n \in 0..MaxRead}

\* The reader is not used while the IOStream is exercised.
\* No byte reader is in use: a reader over an empty buffer, nothing called.
NoReader ==
  /\ stream = <<>>
  /\ backend = "memory"
  /\ reader = fromBuffer(MemBase, 0)
  /\ file = OpenedFile
  /\ proc = "running"
  /\ op = "init" /\ arg = 0 /\ ret = Success /\ dst = <<>>
  /\ taken = 0
  /\ terminal = "None"
  /\ pre = Before

InitStream ==
  /\ NoReader
  /\ codec = NoCodec
  /\ chunk = NoChunk
  /\ peer = NoPeer
  /\ rel = NoRelPtr
  /\ \E content \in Streams :
       ios \in {IOStream_FromVector(content), IOStream_FromCFile(content),
                IOStream_Unbound(content)}
  /\ call = NoCall

\* What the caller has seen of the stream so far: the last of the events
\* "readError" (a Read reported ReadError), "reset", "other" (another
\* failure); whether a Read ever reported ReadError, and whether a Size
\* query was made while that was the last event.
Called(name, n, result, event) ==
  [op |-> name, arg |-> n, ret |-> result, event |-> event,
   read_failed |-> call.read_failed \/ event = "readError",
   sized_in_error |-> call.sized_in_error \/ (name = "Size" /\ call.event = "readError"),
   from |-> ios, origin |-> "none"]

\* The event a call's result makes.
EventOf(result) ==
  IF ErrorCode(result) = ReadError THEN "readError"
  ELSE IF ErrorCode(result) # Success THEN "other"
  ELSE call.event

StreamSize ==
  \E o \in IOStream_Size(ios) :
    /\ ios' = o.s
    /\ call' = Called("Size", 0, o.ret, EventOf(o.ret))
    /\ UNCHANGED <<readerVars, codecVars, relVars, chunkVars, peerVars>>

StreamRead(n) ==
  \E o \in IOStream_Read(ios, n) :
    /\ ios' = o.s
    /\ call' = Called("Read", n, o.ret, EventOf(o.ret))
    /\ UNCHANGED <<readerVars, codecVars, relVars, chunkVars, peerVars>>

StreamResetErrorState ==
  \E o \in IOStream_ResetErrorState(ios) :
    /\ ios' = o.s
    /\ call' = Called("ResetErrorState", 0, IOResult(0, o.ret), "reset")
    /\ UNCHANGED <<readerVars, codecVars, relVars, chunkVars, peerVars>>

StreamWrite(source) ==
  \E o \in IOStream_Write(ios, source) :
    /\ ios' = o.s
    /\ call' = Called("Write", Len(source), o.ret, EventOf(o.ret))
    /\ UNCHANGED <<readerVars, codecVars, relVars, chunkVars, peerVars>>

StreamSeek(offset, seek_origin) ==
  \E o \in IOStream_Seek(ios, offset, seek_origin) :
    /\ ios' = o.s
    /\ call' = [Called("Seek", offset, o.ret, EventOf(o.ret)) EXCEPT !.origin = seek_origin]
    /\ UNCHANGED <<readerVars, codecVars, relVars, chunkVars, peerVars>>

NextStream ==
  \/ StreamSize
  \/ \E n \in 0..MaxRead : StreamRead(n)
  \/ \E source \in Sources : StreamWrite(source)
  \/ \E offset \in SeekOffsets : \E seek_origin \in SeekOrigin :
       StreamSeek(offset, seek_origin)
  \/ StreamResetErrorState

SpecStream == InitStream /\ [][NextStream]_vars

(***************************************************************************)
(* IOResult on its own: the three constructors over every IOSize and every *)
(* IOErrorCode.  op names the constructor, arg its arguments and ret the   *)
(* member value of the object made.                                        *)
(***************************************************************************)
IOSizes == 0..(2^IOSizeBits - 1)

InitResult ==
  /\ NoReader
  /\ ios = NoStream
  /\ call = NoCall
  /\ codec = NoCodec
  /\ chunk = NoChunk
  /\ peer = NoPeer
  /\ rel = NoRelPtr

Constructed(name, arguments, result) ==
  /\ op' = name /\ arg' = arguments /\ ret' = result
  /\ UNCHANGED <<stream, backend, reader, file, proc, dst, taken, terminal, pre>>
  /\ UNCHANGED <<streamVars, codecVars, relVars, chunkVars, peerVars>>

ConstructResult(valid_value, error_code) ==
  Constructed("IOResult(value, code)", <<valid_value, error_code>>,
              IOResult(valid_value, error_code))

ConstructFromErrorCode(error_code) ==
  Constructed("IOResult(code)", <<0, error_code>>, IOResult_FromErrorCode(error_code))

ConstructFromValue(valid_value) ==
  Constructed("IOResult(value)", <<valid_value, Success>>, IOResult_FromValue(valid_value))

NextResult ==
  \/ \E valid_value \in IOSizes : \E error_code \in IOErrorCode :
       ConstructResult(valid_value, error_code)
  \/ \E error_code \in IOErrorCode : ConstructFromErrorCode(error_code)
  \/ \E valid_value \in IOSizes : ConstructFromValue(valid_value)

SpecResult == InitResult /\ [][NextResult]_vars

(***************************************************************************)
(* Part III - the endian codec over the ByteWriterView and the             *)
(* IByteReader: writeLE, writeBE, readLE, readBE.                          *)
(*                                                                         *)
(* A byte has CharBit bits here (CHAR_BIT, scaled down), so that an        *)
(* integer of 8 bytes fits the model checker's arithmetic; the mask 0xFF   *)
(* of the program is ByteMask.                                             *)
(***************************************************************************)
ByteMask == 2^CharBit - 1

\* The integral types T: sizeof(T) and signedness.
IntegralTypes == [size : {1, 2, 4, 8}, signed : BOOLEAN]

BitsOf(T) == T.size * CharBit
MinOf(T) == IF T.signed THEN 0 - 2^(BitsOf(T) - 1) ELSE 0
MaxOf(T) == IF T.signed THEN 2^(BitsOf(T) - 1) - 1 ELSE 2^BitsOf(T) - 1

\* A conversion to T that keeps the value: no reduction to T's range.
ToTypeUnreduced(T, x) == x

\* static_cast<T>(x) of an integer: x modulo 2^bits, in T's range.
ToType(T, x) ==
  LET m == x % 2^BitsOf(T)
  IN IF T.signed /\ m > MaxOf(T) THEN m - 2^BitsOf(T) ELSE m

\* a | b of two naturals.
RECURSIVE BitOr(_, _)
BitOr(a, b) ==
  IF a = 0 THEN b
  ELSE IF b = 0 THEN a
  ELSE 2 * BitOr(a \div 2, b \div 2) + (IF a % 2 = 1 \/ b % 2 = 1 THEN 1 ELSE 0)

\* a |= b of two values of T (two's complement).
OrAssign(T, a, b) == ToType(T, BitOr(a % 2^BitsOf(T), b % 2^BitsOf(T)))

\* The convertIndex of writeBE and readBE taken from writeLE and readLE.
convertIndexAlwaysLE(order, T, i) == i

\* The convertIndex lambdas: i for LE, sizeof(T) - i - 1 for BE.
convertIndex(order, T, i) == IF order = "LE" THEN i ELSE T.size - i - 1

\* A callback that inserts the bytes at the beginning of the vector.
VectorWriteFnAtBegin(buffer, bytes) ==
  {[buffer |-> bytes \o buffer, ret |-> Success],
   [buffer |-> buffer, ret |-> AllocationFailure]}

\* The callback of byteWriterViewFromVector: the bytes appended to the
\* vector, or std::bad_alloc turned into AllocationFailure.
VectorWriteFn(buffer, bytes) ==
  {[buffer |-> buffer \o bytes, ret |-> Success],
   [buffer |-> buffer, ret |-> AllocationFailure]}

\* ByteWriterView::write invoking the callback whatever last_result is.
ByteWriterView_writeUnguarded(w, bytes) ==
  LET called == [w EXCEPT !.nwrites = w.nwrites + 1]
  IN {[w |-> [called EXCEPT !.writer.last_result = o.ret,
                            !.buffer = o.buffer,
                            !.ncallbacks = w.ncallbacks + 1],
       ret |-> o.ret] : o \in VectorWriteFn(w.buffer, bytes)}

\* ByteWriterView::write(bytes, num_bytes) on w = [p, writer, buffer,
\* nwrites, ncallbacks]; bytes is never a null pointer here; ncallbacks
\* counts the invocations of the callback.  Outcomes [w, ret].
ByteWriterView_write(w, bytes) ==
  LET called == [w EXCEPT !.nwrites = w.nwrites + 1]
  IN IF ~(Len(bytes) > 0)
       THEN {[w |-> [called EXCEPT !.p = "aborted"], ret |-> w.writer.last_result]}
       ELSE IF w.writer.last_result = Success
              THEN {[w |-> [called EXCEPT !.writer.last_result = o.ret,
                                          !.buffer = o.buffer,
                                          !.ncallbacks = w.ncallbacks + 1],
                     ret |-> o.ret] : o \in VectorWriteFn(w.buffer, bytes)}
              ELSE {[w |-> called, ret |-> w.writer.last_result]}

\* The bytes[] of detail::writeXEndian:
\* bytes[convertIndex(i)] = (value >> (i * CHAR_BIT)) & 0xFF.
EndianBytes(T, value, order) ==
  [j \in 1..T.size |->
     LET i == CHOOSE i \in 0..(T.size - 1) : convertIndex(order, T, i) = j - 1
     IN (value \div 2^(i * CharBit)) % (ByteMask + 1)]

\* detail::writeXEndian(writer, value, convertIndex): outcomes [w, ret, bytes].
writeXEndian(w, T, value, order) ==
  LET bytes == EndianBytes(T, value, order)
  IN {[w |-> o.w, ret |-> o.ret, bytes |-> bytes] : o \in ByteWriterView_write(w, bytes)}

\* The loop of detail::readXEndian from index i on:
\* (*value) |= T(T(bytes[convertIndex(i)]) << (i * CHAR_BIT)).
RECURSIVE DecodeLoop(_, _, _, _, _)
DecodeLoop(T, bytes, order, i, value) ==
  IF i = T.size THEN value
  ELSE DecodeLoop(T, bytes, order, i + 1,
                  OrAssign(T, value,
                           ToType(T, ToType(T, bytes[convertIndex(order, T, i) + 1])
                                       * 2^(i * CharBit))))

\* detail::readXEndian(reader, value, convertIndex): outcomes
\* [w, dst, ret, value], value being *value after the call.
readXEndian(w, T, value, order) ==
  {[w |-> o.w, dst |-> o.dst, ret |-> o.ret,
    value |-> IF o.ret = Success THEN DecodeLoop(T, o.dst, order, 0, 0) ELSE value]
     : o \in read(w, T.size)}

\* 0101...01 in the bits of T.
RECURSIVE Alternating(_)
Alternating(bits) == IF bits <= 0 THEN 0 ELSE 4 * Alternating(bits - 2) + 1

\* A value whose byte i is i + 1 (modulo the byte's range).
RECURSIVE Counting(_, _)
Counting(T, i) ==
  IF i = T.size THEN 0
  ELSE ((i + 1) % (ByteMask + 1)) * 2^(i * CharBit) + Counting(T, i + 1)

\* The values written: every value of the types of one and two bytes; for
\* the wider types 0, 1, -1, min, max, the alternating bit patterns and a
\* value whose bytes differ.
Values(T) ==
  IF T.size <= 2 THEN MinOf(T)..MaxOf(T)
  ELSE {0, 1, MinOf(T), MaxOf(T), ToType(T, 0 - 1),
        ToType(T, Alternating(BitsOf(T))), ToType(T, 2 * Alternating(BitsOf(T))),
        ToType(T, Counting(T, 0))}

\* byteWriterViewFromVector(&buffer) over an empty vector, a value to
\* write and the caller's variable for the value read.
NewCodec(T, value) ==
  [NoCodec EXCEPT !.T = T, !.value = value, !.out = ToType(T, value + 1),
                  !.out_before = ToType(T, value + 1)]

InitCodec ==
  /\ NoReader
  /\ ios = NoStream
  /\ call = NoCall
  /\ rel = NoRelPtr
  /\ chunk = NoChunk
  /\ peer = NoPeer
  /\ \E T \in IntegralTypes : \E value \in Values(T) : codec = NewCodec(T, value)

WriterWorld == [p |-> proc, writer |-> codec.writer, buffer |-> stream,
                nwrites |-> codec.nwrites, ncallbacks |-> codec.ncallbacks]

BecomeWriter(w) ==
  /\ stream' = w.buffer
  /\ proc' = w.p
  /\ dst' = <<>>
  /\ UNCHANGED <<backend, reader, file, taken, terminal, pre>>
  /\ UNCHANGED <<streamVars, relVars, chunkVars, peerVars>>

\* writeLE(writer, value) and writeBE(writer, value)
WriteEndian(order) ==
  /\ proc = "running"
  /\ ~codec.opened
  /\ codec.order = "none"
  /\ \E o \in writeXEndian(WriterWorld, codec.T, codec.value, order) :
       /\ BecomeWriter(o.w)
       /\ codec' = [codec EXCEPT !.order = order, !.writer = o.w.writer,
                                 !.nwrites_before = codec.nwrites,
                                 !.nwrites = o.w.nwrites, !.bytes = o.bytes,
                                 !.ncallbacks_before = codec.ncallbacks,
                                 !.ncallbacks = o.w.ncallbacks,
                                 !.last_before = codec.writer.last_result]
       /\ op' = "write" \o order /\ arg' = codec.T.size /\ ret' = o.ret

\* writer.write(bytes, num_bytes) called by the user of the view.
WriterWrite(bytes) ==
  /\ proc = "running"
  /\ ~codec.opened
  /\ codec.nwrites = 0
  /\ \E o \in ByteWriterView_write(WriterWorld, bytes) :
       /\ BecomeWriter(o.w)
       /\ codec' = [codec EXCEPT !.writer = o.w.writer,
                                 !.nwrites_before = codec.nwrites,
                                 !.nwrites = o.w.nwrites,
                                 !.ncallbacks_before = codec.ncallbacks,
                                 !.ncallbacks = o.w.ncallbacks,
                                 !.last_before = codec.writer.last_result]
       /\ op' = "write" /\ arg' = Len(bytes) /\ ret' = o.ret

\* IByteReader::fromBuffer over the first len bytes of the vector.
OpenReader(len) ==
  /\ proc = "running"
  /\ ~codec.opened
  /\ codec.order # "none"
  /\ len <= Len(stream)
  /\ reader' = fromBuffer(MemBase, len)
  /\ codec' = [codec EXCEPT !.opened = TRUE, !.len = len]
  /\ op' = "open" /\ arg' = len /\ ret' = Success /\ dst' = <<>>
  /\ UNCHANGED <<stream, backend, file, proc, taken, terminal, pre>>
  /\ UNCHANGED <<streamVars, relVars, chunkVars, peerVars>>

\* readLE(reader, &out) and readBE(reader, &out)
ReadEndian(order) ==
  /\ proc = "running"
  /\ codec.opened
  /\ \E o \in readXEndian(World, codec.T, codec.out, order) :
       /\ BecomeReader(o.w)
       /\ codec' = [codec EXCEPT !.out = o.value, !.out_before = codec.out]
       /\ op' = "read" \o order /\ arg' = codec.T.size /\ ret' = o.ret /\ dst' = o.dst
       /\ UNCHANGED <<streamVars, relVars, chunkVars, peerVars>>

NextCodec ==
  \/ \E order \in {"LE", "BE"} : WriteEndian(order)
  \/ \E bytes \in {<<>>, <<1>>} : WriterWrite(bytes)
  \/ \E len \in 0..Len(stream) : OpenReader(len)
  \/ \E order \in {"LE", "BE"} : ReadEndian(order)
  \/ codec.opened /\ (\E err \in FailureCodes : SetFailureState(err))
  \/ codec.opened /\ ResetErrorState

SpecCodec == InitCodec /\ [][NextCodec]_vars

(***************************************************************************)
(* Part III, continued - the life of one ByteWriterView over a vector:     *)
(* any number of write() calls, up to MaxWrites, and end().                *)
(***************************************************************************)
\* ByteWriterView::end() returning last_result without the std::exchange
\* that resets it.
ByteWriterView_endWithoutReset(w) ==
  LET told == w.writer.last_result = Success
  IN {[w |-> [w EXCEPT !.ncallbacks = IF told THEN w.ncallbacks + 1 ELSE w.ncallbacks],
       ret |-> w.writer.last_result]}

\* ByteWriterView::end(): the callback is told the end of the stream
\* (bytes == nullptr, num_bytes == 0) if no write failed, which the vector's
\* callback answers with Success without touching the vector; the result is
\* returned and last_result is Success again.  Outcomes [w, ret].
ByteWriterView_end(w) ==
  LET told == w.writer.last_result = Success
      last_result == IF told THEN Success ELSE w.writer.last_result
  IN {[w |-> [w EXCEPT !.writer.last_result = Success,
                       !.ncallbacks = IF told THEN w.ncallbacks + 1 ELSE w.ncallbacks],
       ret |-> last_result]}

\* The byte strings handed to write().
WrittenBytes == {<<1>>, <<2, 1>>}

\* What the vector holds when the view is made.
InitialContents == {<<>>, <<3>>}

\* byteWriterViewFromVector(&buffer) over a vector that is empty or holds
\* bytes already.  codec.bytes is the initial content followed by the bytes
\* of the writes that returned Success, in the order of the calls.
InitWriter ==
  /\ stream \in InitialContents
  /\ backend = "memory"
  /\ reader = fromBuffer(MemBase, 0)
  /\ file = OpenedFile
  /\ proc = "running"
  /\ op = "init" /\ arg = 0 /\ ret = Success /\ dst = <<>>
  /\ taken = 0
  /\ terminal = "None"
  /\ pre = Before
  /\ ios = NoStream
  /\ call = NoCall
  /\ rel = NoRelPtr
  /\ chunk = NoChunk
  /\ peer = NoPeer
  /\ codec = [NoCodec EXCEPT !.bytes = stream]

\* writer.write(bytes, num_bytes), any number of times.  failed is the
\* non-Success result the callback has returned since the construction or
\* the last end(), Success if it has returned none.
ViewWrite(bytes) ==
  /\ proc = "running"
  /\ codec.nwrites < MaxWrites
  /\ \E o \in ByteWriterView_write(WriterWorld, bytes) :
       /\ BecomeWriter(o.w)
       /\ codec' = [codec EXCEPT !.writer = o.w.writer,
                                 !.nwrites_before = codec.nwrites,
                                 !.nwrites = o.w.nwrites,
                                 !.ncallbacks_before = codec.ncallbacks,
                                 !.ncallbacks = o.w.ncallbacks,
                                 !.last_before = codec.writer.last_result,
                                 !.failed = IF o.w.ncallbacks > codec.ncallbacks
                                               /\ o.ret # Success
                                              THEN o.ret ELSE codec.failed,
                                 !.bytes = IF o.ret = Success
                                             THEN codec.bytes \o bytes
                                             ELSE codec.bytes]
       /\ op' = "write" /\ arg' = Len(bytes) /\ ret' = o.ret

\* writer.end(); the count of callbacks is capped.
ViewEnd ==
  /\ proc = "running"
  /\ codec.ncallbacks < 2 * MaxWrites
  /\ \E o \in ByteWriterView_end(WriterWorld) :
       /\ BecomeWriter(o.w)
       /\ codec' = [codec EXCEPT !.writer = o.w.writer,
                                 !.nwrites_before = codec.nwrites,
                                 !.ncallbacks_before = codec.ncallbacks,
                                 !.ncallbacks = o.w.ncallbacks,
                                 !.last_before = codec.writer.last_result,
                                 !.failed = Success]
       /\ op' = "end" /\ arg' = 0 /\ ret' = o.ret

NextWriter ==
  \/ \E bytes \in WrittenBytes : ViewWrite(bytes)
  \/ ViewEnd

SpecWriter == InitWriter /\ [][NextWriter]_vars

(***************************************************************************)
(* Part IV - rel_ptr<offset_type, T, alignment>, the relative pointer.     *)
(*                                                                         *)
(* An object p is [rev, signed, alignment, self, offset, was]: "v1" is the *)
(* revision whose stride is sizeof(alignment_type) and whose null offset   *)
(* is 0, "v2" the revision with an integer stride and k_OffsetInvalid;     *)
(* self is the address of the member offset, was the offset before the     *)
(* last operation.  offset_type has OffsetBits bits.                       *)
(***************************************************************************)
k_OffsetMax(p) == IF p.signed THEN 2^(OffsetBits - 1) - 1 ELSE 2^OffsetBits - 1
k_OffsetMin(p) == IF p.signed THEN 0 - 2^(OffsetBits - 1) ELSE 0

\* The offset that stands for null: 0 in v1, k_OffsetInvalid in v2.
k_OffsetInvalid(p) ==
  IF p.rev = "v1" THEN 0
  ELSE IF p.signed THEN k_OffsetMin(p) ELSE k_OffsetMax(p)

\* isNull of v1 in both revisions.
isNullWhenZero(p) == p.offset = 0

base(p) == p.self
isNull(p) == p.offset = k_OffsetInvalid(p)
\* get() taking the offset for an address of its own.
getAbsolute(p) == IF isNull(p) THEN NullPtr ELSE p.offset * p.alignment

get(p) == IF isNull(p) THEN NullPtr ELSE base(p) + p.offset * p.alignment
operator_bool(p) == ~isNull(p)

\* 2^n modulo m
RECURSIVE Pow2Mod(_, _)
Pow2Mod(n, m) == IF n = 0 THEN 1 % m ELSE (2 * Pow2Mod(n - 1, m)) % m

\* static_cast<std::uintptr_t>(off) % m
UIntPtrMod(off, m) == IF off >= 0 THEN off % m ELSE (Pow2Mod(PtrBits, m) + (off % m)) % m

\* a / b of C++ (the quotient truncated towards zero), b > 0.
Quotient(a, b) == IF a >= 0 THEN a \div b ELSE 0 - ((0 - a) \div b)

\* static_cast<offset_type>(x)
ToOffsetType(p, x) ==
  LET m == x % 2^OffsetBits
  IN IF p.signed /\ m > k_OffsetMax(p) THEN m - 2^OffsetBits ELSE m

\* The difference of two alignment_type pointers (v1): the byte distance
\* over the stride; undefined when that is not a whole number, where a
\* build yields the quotient rounded down or rounded towards zero.
PointerDifference(rhs, from, stride) ==
  {(rhs - from) \div stride, Quotient(rhs - from, stride)}

\* calculateOffset with the range tested on the stored offset, both ends
\* included.
calculateOffsetScaledRange(p, rhs) ==
  IF rhs = NullPtr THEN {[ok |-> TRUE, offset |-> k_OffsetInvalid(p)]}
  ELSE LET off == rhs - base(p)
           scaled == Quotient(off, p.alignment)
       IN {[ok |-> off % p.alignment = 0
                   /\ scaled >= k_OffsetMin(p) /\ scaled <= k_OffsetMax(p),
            offset |-> ToOffsetType(p, scaled)]}

\* calculateOffset(rhs, base): outcomes [ok, offset]; ok is false when an
\* assertion failed.
calculateOffset(p, rhs) ==
  IF rhs = NullPtr THEN {[ok |-> TRUE, offset |-> k_OffsetInvalid(p)]}
  ELSE IF p.rev = "v1"
    THEN {[ok |-> rhs % p.alignment = 0
                  /\ off >= k_OffsetMin(p) /\ off <= k_OffsetMax(p),
           offset |-> ToOffsetType(p, off)]
            : off \in PointerDifference(rhs, base(p), p.alignment)}
    ELSE LET off == rhs - base(p)
         IN {[ok |-> UIntPtrMod(off, p.alignment) = 0
                     /\ off >= k_OffsetMin(p) /\ off < k_OffsetMax(p),
              offset |-> ToOffsetType(p, Quotient(off, p.alignment))]}

\* The alignments: sizeof(alignment_type) in v1, the template argument in v2.
Alignments(rev) == IF rev = "v1" THEN {1, 2} ELSE {1, 2, 3}

\* Where the rel_ptr objects are, and the addresses assigned to them.
SelfAddresses == {4 * 2^OffsetBits, 4 * 2^OffsetBits + 1}
Addresses == 0..(8 * 2^OffsetBits)

\* rel_ptr() and rel_ptr(nullptr) at address self.
NewRelPtr(rev, signed, alignment, self) ==
  LET p == [rev |-> rev, signed |-> signed, alignment |-> alignment, self |-> self,
            offset |-> 0, was |-> 0, num_elements |-> 0,
            copy_self |-> NullPtr, copy_offset |-> 0]
  IN [p EXCEPT !.offset = k_OffsetInvalid(p), !.was = k_OffsetInvalid(p)]

InitRelPtr ==
  /\ NoReader
  /\ ios = NoStream
  /\ call = NoCall
  /\ codec = NoCodec
  /\ chunk = NoChunk
  /\ peer = NoPeer
  /\ \E rev \in {"v1", "v2"} : \E signed \in BOOLEAN : \E self \in SelfAddresses :
       \E alignment \in Alignments(rev) :
         /\ rev = "v1" => signed
         /\ rel = NewRelPtr(rev, signed, alignment, self)

\* assign(T* rhs), also operator=(T*)
Assign(rhs) ==
  /\ proc = "running"
  /\ \E o \in calculateOffset(rel, rhs) :
       /\ rel' = IF o.ok THEN [rel EXCEPT !.offset = o.offset, !.was = rel.offset]
                         ELSE [rel EXCEPT !.was = rel.offset]
       /\ proc' = IF o.ok THEN "running" ELSE "aborted"
  /\ op' = "assign" /\ arg' = rhs /\ dst' = <<>>
  /\ UNCHANGED <<stream, backend, reader, file, ret, taken, terminal, pre>>
  /\ UNCHANGED <<streamVars, codecVars, chunkVars, peerVars>>

\* assign(nullptr), also operator=(nullptr)
AssignNull ==
  /\ proc = "running"
  /\ rel' = [rel EXCEPT !.offset = k_OffsetInvalid(rel), !.was = rel.offset]
  /\ op' = "assign(nullptr)" /\ arg' = NullPtr /\ dst' = <<>>
  /\ UNCHANGED <<stream, backend, reader, file, proc, ret, taken, terminal, pre>>
  /\ UNCHANGED <<streamVars, codecVars, chunkVars, peerVars>>

\* The bytes holding the pointer and its target are moved by d (memcpy of
\* the blob, a file mapped elsewhere): the member offset keeps its bytes
\* and lives at another address.
Relocate(d) ==
  /\ proc = "running"
  /\ rel.self + d \in (4 * 2^OffsetBits)..(4 * 2^OffsetBits + 3)
  /\ rel' = [rel EXCEPT !.self = rel.self + d, !.was = rel.offset]
  /\ op' = "relocate" /\ arg' = d /\ dst' = <<>>
  /\ UNCHANGED <<stream, backend, reader, file, proc, ret, taken, terminal, pre>>
  /\ UNCHANGED <<streamVars, codecVars, chunkVars, peerVars>>

(***************************************************************************)
(* rel_array<TCount, TPtr>: the rel_ptr above is its member elements, the  *)
(* field num_elements of the object its count.  value_type is a type       *)
(* whose size is the stride, so that its addresses are get() plus          *)
(* multiples of the stride.                                                *)
(***************************************************************************)
begin(a) == get(a)

\* end() one element past the count.
endOnePastCount(a) == begin(a) + (a.num_elements + 1) * a.alignment

end(a) == begin(a) + a.num_elements * a.alignment
isEmpty(a) == a.num_elements = 0

\* for (it = begin(); it != end(); ++it): the addresses visited from it on.
RECURSIVE Visit(_, _)
Visit(a, it) == IF it = end(a) THEN <<>> ELSE <<it>> \o Visit(a, it + a.alignment)

\* A range-based for over the array; dst is the addresses it visited.
Iterate ==
  /\ proc = "running"
  /\ dst' = Visit(rel, begin(rel))
  /\ op' = "iterate" /\ arg' = rel.num_elements
  /\ UNCHANGED <<stream, backend, reader, file, proc, ret, taken, terminal, pre>>
  /\ UNCHANGED <<streamVars, codecVars, relVars, chunkVars, peerVars>>

NextRelPtr ==
  \/ \E rhs \in Addresses : Assign(rhs)
  \/ AssignNull

SpecRelPtr == InitRelPtr /\ [][NextRelPtr]_vars

\* rel_array{}, or an array made with a count, its elements still null.
InitRelArray ==
  /\ NoReader
  /\ ios = NoStream
  /\ call = NoCall
  /\ codec = NoCodec
  /\ chunk = NoChunk
  /\ peer = NoPeer
  /\ \E rev \in {"v1", "v2"} : \E signed \in BOOLEAN : \E self \in SelfAddresses :
       \E alignment \in Alignments(rev) : \E n \in 0..MaxCount :
         /\ rev = "v1" => signed
         /\ rel = [NewRelPtr(rev, signed, alignment, self) EXCEPT !.num_elements = n]

\* The elements are placed at whole strides from the pointer.
NextRelArray ==
  \/ \E k \in (0 - 2^(OffsetBits - 1))..(2^OffsetBits - 1) :
       Assign(rel.self + k * rel.alignment)
  \/ AssignNull
  \/ \E d \in {0 - 3, 0 - 1, 1, 2} : Relocate(d)
  \/ Iterate

SpecRelArray == InitRelArray /\ [][NextRelArray]_vars

(***************************************************************************)
(* A copy of a rel_ptr: the defaulted copy and move operations of the      *)
(* newer header, and a copy of the object's bytes (the older header        *)
(* deletes the copy operations) give an object at another address with     *)
(* the same offset.  The copy is kept in copy_self and copy_offset.        *)
(***************************************************************************)
\* A copy that recomputes the offset for the address of the copy.
CopyConstructRebased(rhs, at) ==
  [rhs EXCEPT !.self = at,
              !.offset = IF isNull(rhs) THEN rhs.offset
                         ELSE Quotient(get(rhs) - at, rhs.alignment)]

\* rel_ptr(const rel_ptr& rhs) = default, for an object at address `at`.
CopyConstruct(rhs, at) == [rhs EXCEPT !.self = at]

\* The copy that was made last.
TheCopy == [rel EXCEPT !.self = rel.copy_self, !.offset = rel.copy_offset]

\* Where copies are made: the places of SelfAddresses and two more.
CopyAddresses == (4 * 2^OffsetBits)..(4 * 2^OffsetBits + 3)

\* rel_ptr copy{rel} at address `at`.
CopyTo(at) ==
  /\ proc = "running"
  /\ LET copy == CopyConstruct(rel, at)
     IN rel' = [rel EXCEPT !.copy_self = copy.self, !.copy_offset = copy.offset,
                           !.was = rel.offset]
  /\ op' = "copy" /\ arg' = at /\ dst' = <<>>
  /\ UNCHANGED <<stream, backend, reader, file, proc, ret, taken, terminal, pre>>
  /\ UNCHANGED <<streamVars, codecVars, chunkVars, peerVars>>

\* The pointer is assigned, then copied; it is not assigned again while
\* the copy is looked at.
NextRelCopy ==
  \/ /\ rel.copy_self = NullPtr
     /\ \E k \in (0 - 2^(OffsetBits - 1))..(2^OffsetBits - 1) :
          Assign(rel.self + k * rel.alignment)
  \/ rel.copy_self = NullPtr /\ AssignNull
  \/ \E at \in CopyAddresses : CopyTo(at)

SpecRelCopy == InitRelPtr /\ [][NextRelCopy]_vars

(***************************************************************************)
(* Part V - the chunk format: a header (type id, version, data size), the  *)
(* payload and a footer holding the crc32 of the payload.  A chunk is the  *)
(* sequence of its bytes; the integers in it have the widths of their      *)
(* types in bytes of CharBit bits and are laid out least significant byte  *)
(* first.  ChunkUtils::writeChecksum and crc32 are the program's; the      *)
(* layout of the header, the write path around writeChecksum and the read  *)
(* path follow the format's description.                                   *)
(***************************************************************************)
\* using ChunkTypeID = std::uint32_t and VersionType = std::uint16_t, the
\* std::uint64_t of data_size and the std::uint32_t of a checksum.
ChunkTypeID == [size |-> 4, signed |-> FALSE]
VersionType == [size |-> 2, signed |-> FALSE]
DataSizeType == [size |-> 8, signed |-> FALSE]
Crc32Type == [size |-> 4, signed |-> FALSE]

\* a ^ b of two naturals.
RECURSIVE BitXor(_, _)
BitXor(a, b) ==
  IF a = 0 THEN b
  ELSE IF b = 0 THEN a
  ELSE 2 * BitXor(a \div 2, b \div 2) + (IF a % 2 = b % 2 THEN 0 ELSE 1)

\* The polynomial 0xEDB88320 in the bits of a checksum: its leading bits.
Polynomial == 60856 \div 2^(16 - BitsOf(Crc32Type))

\* The loop that makes crc32_table[i], one step for each bit of a byte.
RECURSIVE crc32_table(_, _, _)
crc32_table(ch, crc, j) ==
  IF j = CharBit THEN crc
  ELSE LET b == BitXor(ch, crc) % 2
           shifted == crc \div 2
       IN crc32_table(ch \div 2, IF b = 1 THEN BitXor(shifted, Polynomial) ELSE shifted,
                      j + 1)

k_Crc32Table(i) == crc32_table(i, 0, 0)

\* The loop of crc32 from index i on:
\* crc = (crc >> 8) ^ k_Crc32Table[(bytes[i] ^ crc) & 0xFF].
RECURSIVE crc32_loop(_, _, _, _)
crc32_loop(bytes, i, num_bytes, crc) ==
  IF i >= num_bytes THEN crc
  ELSE crc32_loop(bytes, i + 1, num_bytes,
                  BitXor(crc \div 2^CharBit,
                         k_Crc32Table(BitXor(bytes[i + 1], crc) % 2^CharBit)))

\* crc32 leaving the last byte out.
crc32WithoutLastByte(bytes, num_bytes, crc) ==
  MaxOf(Crc32Type) - crc32_loop(bytes, 0, num_bytes - 1, crc)

\* crc32(bytes, num_bytes, crc): the loop, then ~crc.
crc32(bytes, num_bytes, crc) == MaxOf(Crc32Type) - crc32_loop(bytes, 0, num_bytes, crc)

\* The default argument crc = 0xFFFFFFFF of crc32.
crc32_DefaultSeed == MaxOf(Crc32Type)

\* sizeof(BinaryChunkHeader): type id, version and data size.
HeaderSize == ChunkTypeID.size + VersionType.size + DataSizeType.size

\* The fields of the header at the front of a chunk, and
\* chunk_header->data(): the bytes that follow the header.
header_type_id(chunk_header) ==
  DecodeLoop(ChunkTypeID, SubSeq(chunk_header, 1, ChunkTypeID.size), "LE", 0, 0)
header_version(chunk_header) ==
  DecodeLoop(VersionType,
             SubSeq(chunk_header, ChunkTypeID.size + 1, ChunkTypeID.size + VersionType.size),
             "LE", 0, 0)
header_data_size(chunk_header) ==
  DecodeLoop(DataSizeType,
             SubSeq(chunk_header, ChunkTypeID.size + VersionType.size + 1, HeaderSize),
             "LE", 0, 0)
header_data(chunk_header) == SubSeq(chunk_header, HeaderSize + 1, Len(chunk_header))

\* chunk_header->footer()->crc32_checksum: the checksum after the payload.
footer_crc32_checksum(chunk_header) ==
  LET at == HeaderSize + header_data_size(chunk_header)
  IN DecodeLoop(Crc32Type, SubSeq(chunk_header, at + 1, at + Crc32Type.size), "LE", 0, 0)

\* The chunk with crc32_checksum set.
StoreChecksum(chunk_header, checksum) ==
  LET at == HeaderSize + header_data_size(chunk_header)
  IN SubSeq(chunk_header, 1, at)
       \o EndianBytes(Crc32Type, checksum, "LE")
       \o SubSeq(chunk_header, at + Crc32Type.size + 1, Len(chunk_header))

\* writeChecksum taking the checksum from the start of the header on.
writeChecksumFromHeader(rev, chunk_header, k_crc32InitialSeed) ==
  StoreChecksum(chunk_header,
                crc32(chunk_header, header_data_size(chunk_header),
                      IF rev = "v1" THEN crc32_DefaultSeed ELSE k_crc32InitialSeed))

\* writeChecksum without its seed.
writeChecksumUnseeded(rev, chunk_header, k_crc32InitialSeed) ==
  StoreChecksum(chunk_header,
                crc32(header_data(chunk_header), header_data_size(chunk_header), 0))

\* ChunkUtils::writeChecksum(chunk_header): the first revision calls
\* crc32(data, data_size), the second crc32(data, data_size,
\* k_crc32InitialSeed).
writeChecksum(rev, chunk_header, k_crc32InitialSeed) ==
  LET data == header_data(chunk_header)
  IN StoreChecksum(chunk_header,
                   crc32(data, header_data_size(chunk_header),
                         IF rev = "v1" THEN crc32_DefaultSeed ELSE k_crc32InitialSeed))

\* The write path: the header fields in their order, the payload, room for
\* the footer, then the checksum.
writeChunk(rev, type_id, version, payload, k_crc32InitialSeed) ==
  writeChecksum(rev,
                EndianBytes(ChunkTypeID, type_id, "LE")
                  \o EndianBytes(VersionType, version, "LE")
                  \o EndianBytes(DataSizeType, Len(payload), "LE")
                  \o payload
                  \o [i \in 1..Crc32Type.size |-> 0],
                k_crc32InitialSeed)

NoRead == [ret |-> "none", type_id |-> 0, version |-> 0, data_size |-> 0, payload |-> <<>>]

\* The read path: the header, data_size bytes of payload, the footer; the
\* checksum of the payload read is compared with the footer's.
readChunk(rev, bytes, k_crc32InitialSeed) ==
  IF Len(bytes) < HeaderSize THEN [NoRead EXCEPT !.ret = EndOfStream]
  ELSE LET data_size == header_data_size(bytes)
           header == [NoRead EXCEPT !.type_id = header_type_id(bytes),
                                    !.version = header_version(bytes),
                                    !.data_size = data_size]
           payload == SubSeq(bytes, HeaderSize + 1, HeaderSize + data_size)
           seed == IF rev = "v1" THEN crc32_DefaultSeed ELSE k_crc32InitialSeed
       IN IF Len(bytes) < HeaderSize + data_size + Crc32Type.size
            THEN [header EXCEPT !.ret = EndOfStream]
          ELSE IF crc32(payload, data_size, seed) # footer_crc32_checksum(bytes)
            THEN [header EXCEPT !.ret = InvalidData]
          ELSE [header EXCEPT !.ret = Success, !.payload = payload]

\* The type ids, versions and payloads written; a payload's bytes are 0, 1
\* and the byte of all ones.
TypeIDs == {1, MaxOf(ChunkTypeID)}
Versions == {1, MaxOf(VersionType)}
Tags == {<<1, 1>>, <<MaxOf(ChunkTypeID), MaxOf(VersionType)>>}
RECURSIVE PayloadsOfLength(_)
PayloadsOfLength(n) ==
  IF n = 0 THEN {<<>>}
  ELSE {<<b>> \o rest : b \in {0, 1, ByteMask}, rest \in PayloadsOfLength(n - 1)}
Payloads == UNION {PayloadsOfLength(n) : n \in 0..MaxPayload}

\* A chunk to be written, by either revision; the second with one of two
\* values for k_crc32InitialSeed.
InitChunk ==
  /\ NoReader
  /\ ios = NoStream
  /\ call = NoCall
  /\ codec = NoCodec
  /\ rel = NoRelPtr
  /\ peer = NoPeer
  /\ \E rev \in {"v1", "v2"} : \E seed \in {0, crc32_DefaultSeed} :
       /\ rev = "v1" => seed = crc32_DefaultSeed
       /\ chunk = [NoChunk EXCEPT !.rev = rev, !.seed = seed, !.phase = "empty",
                                  !.read = NoRead]

WriteChunk(type_id, version, payload) ==
  /\ chunk.phase = "empty"
  /\ chunk' = [chunk EXCEPT !.phase = "written", !.type_id = type_id,
                            !.version = version, !.payload = payload,
                            !.bytes = writeChunk(chunk.rev, type_id, version, payload,
                                                 chunk.seed)]
  /\ UNCHANGED <<readerVars, streamVars, codecVars, relVars, peerVars>>

\* One byte of the payload changed between writing and reading.
CorruptPayloadByte(i, b) ==
  /\ chunk.phase = "written"
  /\ chunk.read = NoRead
  /\ i \in 1..Len(chunk.payload)
  /\ b # chunk.bytes[HeaderSize + i]
  /\ chunk' = [chunk EXCEPT !.phase = "payload corrupted", !.bytes[HeaderSize + i] = b]
  /\ UNCHANGED <<readerVars, streamVars, codecVars, relVars, peerVars>>

\* One bit of the footer's checksum flipped between writing and reading.
CorruptFooterBit(k) ==
  /\ chunk.phase = "written"
  /\ chunk.read = NoRead
  /\ LET at == HeaderSize + Len(chunk.payload) + (k \div CharBit) + 1
     IN chunk' = [chunk EXCEPT !.phase = "footer corrupted",
                               !.bytes[at] = BitXor(chunk.bytes[at], 2^(k % CharBit))]
  /\ UNCHANGED <<readerVars, streamVars, codecVars, relVars, peerVars>>

ReadChunk ==
  /\ chunk.phase # "empty"
  /\ chunk.read = NoRead
  /\ chunk' = [chunk EXCEPT !.read = readChunk(chunk.rev, chunk.bytes, chunk.seed)]
  /\ UNCHANGED <<readerVars, streamVars, codecVars, relVars, peerVars>>

NextChunk ==
  \/ \E tag \in Tags : \E payload \in Payloads : WriteChunk(tag[1], tag[2], payload)
  \/ \E i \in 1..MaxPayload : \E b \in 0..ByteMask : CorruptPayloadByte(i, b)
  \/ \E k \in 0..(BitsOf(Crc32Type) - 1) : CorruptFooterBit(k)
  \/ ReadChunk

SpecChunk == InitChunk /\ [][NextChunk]_vars

(***************************************************************************)
(* Part VI - byte_swap.hpp: byteSwap16, byteSwap32 and byteSwap64, of the  *)
(* older header ("v1") and the newer one ("v2"), on each path the          *)
(* preprocessor can take.  Integers of 2, 4 and 8 bytes of CharBit bits.   *)
(***************************************************************************)
UInt16 == [size |-> 2, signed |-> FALSE]
UInt32 == [size |-> 4, signed |-> FALSE]
UInt64 == [size |-> 8, signed |-> FALSE]

\* value & m, m being the mask of byte i (0x00FF, 0xFF00, ...).
AndByteMask(value, i) == ((value \div 2^(i * CharBit)) % 2^CharBit) * 2^(i * CharBit)

\* x << (8 * n) in the unsigned type T, and x >> (8 * n).
ShiftLeftBytes(T, x, n) == (x * 2^(n * CharBit)) % 2^BitsOf(T)
ShiftRightBytes(x, n) == x \div 2^(n * CharBit)

\* a | b | ... of the terms of a sequence.
RECURSIVE OrAll(_)
OrAll(terms) == IF terms = <<>> THEN 0 ELSE BitOr(terms[1], OrAll(Tail(terms)))

\* byteSwap16_portable(value): the argument is converted to std::uint16_t,
\* as is the result.
byteSwap16_portable(value) ==
  LET v == ToType(UInt16, value)
  IN ToType(UInt16, OrAll(<<AndByteMask(v, 0) * 2^CharBit,
                            ShiftRightBytes(AndByteMask(v, 1), 1)>>))

byteSwap32_portable(value) ==
  LET v == ToType(UInt32, value)
  IN OrAll(<<ShiftLeftBytes(UInt32, AndByteMask(v, 0), 3),
             ShiftLeftBytes(UInt32, AndByteMask(v, 1), 1),
             ShiftRightBytes(AndByteMask(v, 2), 1),
             ShiftRightBytes(AndByteMask(v, 3), 3)>>)

byteSwap64_portable(value) ==
  LET v == ToType(UInt64, value)
  IN OrAll(<<ShiftLeftBytes(UInt64, AndByteMask(v, 0), 7),
             ShiftLeftBytes(UInt64, AndByteMask(v, 1), 5),
             ShiftLeftBytes(UInt64, AndByteMask(v, 2), 3),
             ShiftLeftBytes(UInt64, AndByteMask(v, 3), 1),
             ShiftRightBytes(AndByteMask(v, 4), 1),
             ShiftRightBytes(AndByteMask(v, 5), 3),
             ShiftRightBytes(AndByteMask(v, 6), 5),
             ShiftRightBytes(AndByteMask(v, 7), 7)>>)

\* The compiler's instruction (__builtin_bswap16/32/64, _byteswap_ushort,
\* _byteswap_ulong, _byteswap_uint64): the bytes of the value, from the
\* least significant one, become the bytes of the result from the most
\* significant one.
RECURSIVE ReverseBytes(_, _, _)
ReverseBytes(T, value, i) ==
  IF i = T.size THEN 0
  ELSE ((value \div 2^(i * CharBit)) % 2^CharBit) * 2^((T.size - 1 - i) * CharBit)
         + ReverseBytes(T, value, i + 1)

bswap(T, value) == ReverseBytes(T, value, 0)

\* The paths of the preprocessor and of if constexpr: the compiler's
\* builtin (gcc, clang, intel), the MSVC intrinsic, the branch the newer
\* header takes under MSVC when the intrinsic's operand has another size
\* than the value, and the portable functions.
CompilePaths(rev) ==
  {"builtin", "msvc", "portable"} \cup (IF rev = "v2" THEN {"msvc_fallback"} ELSE {})

byteSwap16(rev, path, value) ==
  CASE path = "builtin" -> bswap(UInt16, value)
    [] path = "msvc" -> bswap(UInt16, value)
    [] path = "msvc_fallback" -> byteSwap16_portable(value)
    [] path = "portable" -> byteSwap16_portable(value)

\* The newer header's fallback of byteSwap32 calls byteSwap16_portable.
byteSwap32(rev, path, value) ==
  CASE path = "builtin" -> bswap(UInt32, value)
    [] path = "msvc" -> bswap(UInt32, value)
    [] path = "msvc_fallback" -> byteSwap16_portable(value)
    [] path = "portable" -> byteSwap32_portable(value)

\* The newer header's fallback of byteSwap64 calls byteSwap16_portable.
byteSwap64(rev, path, value) ==
  CASE path = "builtin" -> bswap(UInt64, value)
    [] path = "msvc" -> bswap(UInt64, value)
    [] path = "msvc_fallback" -> byteSwap16_portable(value)
    [] path = "portable" -> byteSwap64_portable(value)

\* byteSwapN of the type T, and the portable function of the same width.
byteSwap(T, rev, path, value) ==
  CASE T.size = 2 -> byteSwap16(rev, path, value)
    [] T.size = 4 -> byteSwap32(rev, path, value)
    [] T.size = 8 -> byteSwap64(rev, path, value)

byteSwap_portable(T, value) ==
  CASE T.size = 2 -> byteSwap16_portable(value)
    [] T.size = 4 -> byteSwap32_portable(value)
    [] T.size = 8 -> byteSwap64_portable(value)

InitSwap ==
  /\ NoReader
  /\ ios = NoStream
  /\ call = NoCall
  /\ codec = NoCodec
  /\ chunk = NoChunk
  /\ peer = NoPeer
  /\ rel = NoRelPtr

\* A call of byteSwap16, byteSwap32 or byteSwap64 in a build of the header
\* rev that takes the path.
ByteSwap(T, rev, path, value) ==
  /\ op' = "byteSwap" /\ arg' = <<T, rev, path, value>>
  /\ ret' = byteSwap(T, rev, path, value)
  /\ UNCHANGED <<stream, backend, reader, file, proc, dst, taken, terminal, pre>>
  /\ UNCHANGED <<streamVars, codecVars, relVars, chunkVars, peerVars>>

NextSwap ==
  \E T \in {UInt16, UInt32, UInt64} : \E rev \in {"v1", "v2"} :
    \E path \in CompilePaths(rev) : \E value \in Values(T) :
      ByteSwap(T, rev, path, value)

SpecSwap == InitSwap /\ [][NextSwap]_vars

(***************************************************************************)
(* Part VII - operator+=(IOResult&, IOResult) of the older interface: the  *)
(* results of a sequence of calls accumulated into one variable.  ret is   *)
(* the variable, dst the results added to it so far.                       *)
(***************************************************************************)
\* enum class IOResult of the older interface: it has no InvalidOperation.
LegacyIOResult == IOErrorCode \ {InvalidOperation}

\* An operator+= that keeps the first failure.
operator_plus_assign_KeepFirst(lhs, rhs) == IF lhs = Success THEN rhs ELSE lhs

\* lhs += rhs: the value of lhs afterwards.
operator_plus_assign(lhs, rhs) == IF rhs # Success THEN rhs ELSE lhs

\* IOResult result = IOResult::Success; nothing added yet.
InitFold ==
  /\ NoReader
  /\ ios = NoStream
  /\ call = NoCall
  /\ codec = NoCodec
  /\ chunk = NoChunk
  /\ peer = NoPeer
  /\ rel = NoRelPtr

\* result += rhs
Accumulate(rhs) ==
  /\ Len(dst) < MaxFold
  /\ ret' = operator_plus_assign(ret, rhs)
  /\ dst' = Append(dst, rhs)
  /\ op' = "+=" /\ arg' = rhs
  /\ UNCHANGED <<stream, backend, reader, file, proc, taken, terminal, pre>>
  /\ UNCHANGED <<streamVars, codecVars, relVars, chunkVars, peerVars>>

NextFold == \E rhs \in LegacyIOResult : Accumulate(rhs)

SpecFold == InitFold /\ [][NextFold]_vars



(***************************************************************************)
(* Properties of the buffered reader.                                      *)
(***************************************************************************)
\* The bytes of the stream from position `from` on, at most k of them.
StreamBytes(from, k) ==
  [i \in 1..Min(k, Len(stream) - from) |-> stream[from + i]]

FileBacked == backend \in {"cfile_v1", "cfile_v2"}

\* C1: once the sticky error is a non-Success code e, no later operation
\* other than the explicit reset changes it to another code.
C1_FirstErrorWins ==
  [][(reader.last_result # Success /\ op' # "reset")
       => reader'.last_result = reader.last_result]_vars

\* C2: once the failure state is entered with error e, the refill function
\* stays the stub, no further physical read is issued, and while only
\* reads, refills and direct buffer reads follow, the error state stays e
\* and every refill returns e.
C2_PermanentFailure ==
  [][reader.refill_fn = "failure"
       => /\ reader'.refill_fn = "failure"
          /\ file' = file
          /\ (op' \in {"read", "refill", "consume"} /\ reader.last_result = terminal)
               => /\ reader'.last_result = terminal
                  /\ terminal' = terminal
                  /\ (op' = "refill" => ret' = terminal)]_vars

\* C2 witness: a refill on a file reader that had already failed returned
\* the error of the failure transition.
C2_Witness ==
  /\ FileBacked
  /\ op = "refill"
  /\ pre.refill_fn = "failure"
  /\ ret = ReadError
  /\ terminal = ReadError
  /\ file.pos < Len(stream)

\* C3: between operations, buffer_start <= cursor <= buffer_end.
C3_WindowInvariant ==
  proc = "running"
    => /\ reader.buffer_start <= reader.cursor
       /\ reader.cursor <= reader.buffer_end

\* C3 witness: a read left the cursor strictly inside a window of the file
\* reader's local buffer.
C3_Witness ==
  /\ FileBacked
  /\ op = "read"
  /\ reader.buffer_start < reader.cursor
  /\ reader.cursor < reader.buffer_end

\* C4: a refill invoked with cursor == buffer_end that reports Success
\* leaves cursor == buffer_start and cursor < buffer_end.
C4_RefillPostcondition ==
  (proc = "running" /\ op = "refill" /\ pre.exhausted /\ ret = Success)
    => /\ reader.cursor = reader.buffer_start
       /\ reader.cursor < reader.buffer_end

\* C4 witness: a successful refill of the file reader after a physical read
\* that returned fewer bytes than the buffer holds.
C4_Witness ==
  /\ FileBacked
  /\ op = "refill"
  /\ ret = Success
  /\ pre.exhausted
  /\ file.nreads > pre.nreads
  /\ numBytesAvailable(reader) < BufSize

\* Two read calls of n1 and n2 bytes in a row, as one outcome.
ReadTwice(w, n1, n2) ==
  UNION {
    IF o1.w.p # "running"
      THEN {o1}
      ELSE {[w |-> o2.w, dst |-> o1.dst \o o2.dst, ret |-> o2.ret]
              : o2 \in read(o1.w, n2)}
    : o1 \in read(w, n1) }

\* C5: from every state, reading n1 + n2 bytes with one call has the same
\* outcomes (destination bytes, error state, reader, file) as reading n1
\* bytes and then n2 bytes.
C5_ChunkingIndependence ==
  proc = "running"
    => \A n1 \in 1..MaxRead : \A n2 \in 1..(MaxRead - n1) :
         ReadTwice(World, n1, n2) = read(World, n1 + n2)

\* C5 witness: a file reader whose window holds fewer bytes than a split
\* read asks for, so that the read crosses a refill, and the whole read
\* can complete.
C5_Witness ==
  /\ FileBacked
  /\ proc = "running"
  /\ numBytesAvailable(reader) = 1
  /\ \E o \in read(World, 1 + 2) :
       /\ o.ret = Success
       /\ o.w.f.nreads > file.nreads

\* C6: a read returns the number k of bytes copied and the error state;
\* the bytes copied are the next k bytes of the stream, the position
\* advances by k, and k falls short of n only when the stream could not
\* supply more before its error state became non-Success.
C6_ReadDeliversNextBytes ==
  (op = "read" /\ proc = "running")
    => LET k == Len(dst)
       IN /\ ret = reader.last_result
          /\ k <= arg
          /\ dst = StreamBytes(pre.taken, k)
          /\ Len(StreamBytes(pre.taken, k)) = k
          /\ taken = pre.taken + k
          /\ (k < arg => ret # Success)
          /\ (pre.last_result # Success => k = 0)
          /\ (k < arg /\ ret = EndOfStream /\ pre.last_result = Success)
               => taken = Len(stream)

\* C7: a read of n > 0 bytes reports Success exactly when n bytes of the
\* stream were transferred; on a memory stream holding fewer than n unread
\* bytes the read does not report Success, and a read of exactly the
\* remaining bytes of a memory stream in state Success reports Success.
C7_ShortReadNeverSuccess ==
  (op = "read" /\ proc = "running" /\ arg > 0)
    => /\ (ret = Success) <=> (dst = StreamBytes(pre.taken, arg) /\ Len(dst) = arg)
       /\ (backend = "memory" /\ Len(stream) - pre.taken < arg) => ret # Success
       /\ (backend = "memory" /\ Len(stream) - pre.taken = arg
             /\ pre.last_result = Success /\ pre.terminal = "None")
            => (ret = Success /\ reader.last_result = Success)

\* C8: after the terminal EndOfStream condition, every read of n > 0 bytes
\* reports a non-Success result and copies no bytes, also after a reset.
C8_FailFastAfterEndOfStream ==
  (op = "read" /\ arg > 0 /\ pre.terminal = EndOfStream)
    => (ret # Success /\ dst = <<>>)

RefillReportedError ==
  \/ op \in {"refill", "setFailureState"} /\ ret # Success
  \/ op = "read" /\ ret # Success /\ pre.last_result = Success

C10_StickyErrorReportedBySize ==
  (call.op = "Size" /\ "Size" \in ios.slots)
    => /\ call.event = "readError" => ErrorCode(call.ret) = ReadError
       /\ call.event = "reset"
            => (ErrorCode(call.ret) = Success /\ Value(call.ret) = Len(ios.data))

\* C10 witness: a Read failed with ReadError, a Size query made then was
\* answered, the error state was reset, and a Size query is answered now
\* for a stream that holds data.
C10_Witness ==
  /\ call.op = "Size"
  /\ call.event = "reset"
  /\ call.read_failed
  /\ call.sized_in_error
  /\ Len(ios.data) > 0

\* The IOSteam_Supports* query that belongs to an operation.
SupportsQuery(s, name) ==
  CASE name = "Read" -> IOSteam_SupportsRead(s)
    [] name = "Write" -> IOSteam_SupportsWrite(s)
    [] name = "Seek" -> IOSteam_SupportsSeek(s)

\* C11: a call of Size, Read, Write or Seek whose slot is unbound returns
\* InvalidOperation and leaves the cursor and the backend's data as they
\* were; the Supports query of Read, Write and Seek is false for the
\* unbound slots, and true for the others: there the call does not answer
\* InvalidOperation on a stream that had no error.
C11_UnboundOperationIsInvalid ==
  /\ (call.op \in {"Size", "Read", "Write", "Seek"} /\ call.op \notin call.from.slots)
       => /\ ErrorCode(call.ret) = InvalidOperation
          /\ Value(call.ret) = 0
          /\ ios.cursor = call.from.cursor
          /\ ios.data = call.from.data
  /\ call.op \in {"Read", "Write", "Seek"}
       => IF SupportsQuery(call.from, call.op)
            THEN call.from.error_state = Success => ErrorCode(call.ret) # InvalidOperation
            ELSE call.op \notin call.from.slots /\ ErrorCode(call.ret) = InvalidOperation

\* C11 witness: a file stream that was read from, and had no error, was
\* asked to write; the call answered InvalidOperation.
C11_Witness ==
  /\ call.op = "Write"
  /\ call.arg > 0
  /\ call.from.kind = "cfile"
  /\ call.from.cursor > 0
  /\ call.from.error_state = Success
  /\ ~IOSteam_SupportsWrite(call.from)
  /\ ErrorCode(call.ret) = InvalidOperation

\* C13: a refill invoked while unread bytes remain terminates the process;
\* it is never run as a refill that changes the buffer window.
C13_RefillWithUnreadIsFatal ==
  (op = "refill" /\ ~pre.exhausted)
    => (proc = "aborted" /\ reader.refill_fn = pre.refill_fn)

(***************************************************************************)
(* Properties of the writer view and of the endian codec.                  *)
(***************************************************************************)
\* C12: a write of zero bytes returns Success, leaves the process running
\* and the vector and the view's error state as they were.
C12_ZeroLengthSucceeds ==
  (op = "write" /\ arg = 0)
    => (/\ proc = "running"
        /\ ret = Success
        /\ stream = <<>>
        /\ codec.writer.last_result = Success)

\* The last codec operation read with the order the value was written in,
\* from a new reader over exactly the bytes that write produced.
ReadBack ==
  /\ op = "read" \o codec.order
  /\ stream = codec.bytes
  /\ codec.len = codec.T.size
  /\ pre.taken = 0
  /\ pre.refill_fn = "fromBuffer"

\* C14: a value written with writeLE (writeBE) and read back with readLE
\* (readBE) from a stream holding the bytes written comes back as the same
\* value, with Success, for every type and value considered.
C14_EndianRoundTrip ==
  ReadBack => (ret = Success /\ codec.out = codec.value /\ dst = codec.bytes)

\* C14 witness: the least value of the signed type of eight bytes was
\* written big endian and read back.
C14_Witness ==
  /\ ReadBack
  /\ codec.order = "BE"
  /\ codec.T = [size |-> 8, signed |-> TRUE]
  /\ codec.value = MinOf(codec.T)
  /\ codec.out = codec.value
  /\ codec.out # codec.out_before

\* Byte i (from the least significant) of the two's complement of value.
ByteOf(T, value, i) == ((value % 2^BitsOf(T)) \div 2^(i * CharBit)) % 2^CharBit

\* C15: writeLE and writeBE call write exactly once, with sizeof(T) bytes;
\* byte i of the value is at position i for LE and at position
\* sizeof(T) - 1 - i for BE, so the BE bytes are the LE bytes reversed; a
\* write that succeeded appended these bytes to the vector.
C15_EndianByteLayout ==
  op \in {"writeLE", "writeBE"}
    => LET T == codec.T
           W == T.size
       IN /\ codec.nwrites = codec.nwrites_before + 1
          /\ Len(codec.bytes) = W
          /\ \A i \in 0..(W - 1) :
               codec.bytes[(IF op = "writeLE" THEN i ELSE W - 1 - i) + 1]
                 = ByteOf(T, codec.value, i)
          /\ \A j \in 1..W :
               EndianBytes(T, codec.value, "BE")[j]
                 = EndianBytes(T, codec.value, "LE")[W + 1 - j]
          /\ ret = Success
               => (/\ Len(stream) >= W
                   /\ \A j \in 1..W : stream[Len(stream) - W + j] = codec.bytes[j])

\* C15 witness: a negative value of four bytes whose first and last byte
\* differ was written big endian into the vector.
C15_Witness ==
  /\ op = "writeBE"
  /\ codec.T = [size |-> 4, signed |-> TRUE]
  /\ codec.value < 0
  /\ ret = Success
  /\ stream = codec.bytes
  /\ codec.bytes[1] # codec.bytes[4]

\* C16: readLE and readBE leave the caller's value as it was and return a
\* code other than Success whenever the stream has fewer than sizeof(T)
\* bytes left or the reader is in an error state already.
C16_FailedReadKeepsOutput ==
  (/\ op \in {"readLE", "readBE"}
   /\ codec.len - pre.taken < codec.T.size \/ pre.last_result # Success)
    => (ret # Success /\ codec.out = codec.out_before)

(***************************************************************************)
(* Properties of the relative pointer.                                     *)
(***************************************************************************)
\* The last operation assigned a non-null address.
AssignedAddress == op = "assign" /\ arg # NullPtr

\* The byte distance of the address assigned from the pointer's storage.
Delta == arg - base(rel)

\* C17: an address whose distance from the pointer is a multiple of the
\* stride and lies within offset_min * stride and offset_max * stride is
\* accepted by assign, and get() returns it.
C17_AssignGetRoundTrip ==
  (/\ AssignedAddress
   /\ Delta % rel.alignment = 0
   /\ Delta >= k_OffsetMin(rel) * rel.alignment
   /\ Delta <= k_OffsetMax(rel) * rel.alignment)
    => (proc = "running" /\ get(rel) = arg)

\* C18: after an assignment of a non-null address that was accepted the
\* offset is not the null offset: isNull() is false and get() is not null.
C18_SentinelNeverAssigned ==
  (AssignedAddress /\ proc = "running")
    => (rel.offset # k_OffsetInvalid(rel) /\ ~isNull(rel) /\ get(rel) # NullPtr)

\* C19: a pointer that was default constructed, constructed from nullptr
\* or assigned null (a null T* or nullptr) holds the null offset: isNull()
\* is true, get() is null and the conversion to bool is false.
C19_NullIsSentinel ==
  (op \in {"init", "assign(nullptr)"} \/ (op = "assign" /\ arg = NullPtr))
    => (/\ proc = "running"
        /\ rel.offset = k_OffsetInvalid(rel)
        /\ isNull(rel)
        /\ get(rel) = NullPtr
        /\ ~operator_bool(rel))

\* C19 witness: a pointer of the second revision that pointed to an
\* address was assigned nullptr.
C19_Witness ==
  /\ op = "assign(nullptr)"
  /\ rel.rev = "v2"
  /\ rel.was # k_OffsetInvalid(rel)
  /\ get([rel EXCEPT !.offset = rel.was]) # NullPtr
  /\ isNull(rel)

\* C20: the assignment of an address whose distance is not a multiple of
\* the stride, or whose offset (distance / stride) is outside offset_min ..
\* offset_max or is the null offset, ends the process and stores nothing.
C20_BadAssignIsFatal ==
  (/\ AssignedAddress
   /\ \/ Delta % rel.alignment # 0
      \/ Delta \div rel.alignment < k_OffsetMin(rel)
      \/ Delta \div rel.alignment > k_OffsetMax(rel)
      \/ Delta \div rel.alignment = k_OffsetInvalid(rel))
    => (proc = "aborted" /\ rel.offset = rel.was)

\* C21: a non-null pointer moved by d together with its target, its offset
\* unchanged, points to the target's new address: get() after the move is
\* get() before it plus d.  (A null pointer stays null.)
C21_RelocationInvariance ==
  op = "relocate"
    => LET original == [rel EXCEPT !.self = rel.self - arg]
       IN /\ rel.offset = rel.was
          /\ ~isNull(rel) => (get(original) # NullPtr /\ get(rel) = get(original) + arg)
          /\ isNull(rel) => get(rel) = NullPtr

\* C21 witness: a pointer of the second revision with a negative offset
\* and stride 2 was moved by 2 bytes.
C21_Witness ==
  /\ op = "relocate"
  /\ arg = 2
  /\ rel.rev = "v2"
  /\ rel.alignment = 2
  /\ ~isNull(rel)
  /\ rel.offset < 0

\* C22: over an array whose elements pointer is not null, begin() is
\* elements.get(), end() is begin() plus num_elements elements, the
\* iteration visits the num_elements consecutive elements from begin() on
\* and visits the same ones when run again; isEmpty() is true exactly when
\* num_elements is 0, and a default constructed array is empty.
C22_ArrayIteration ==
  /\ isEmpty(rel) <=> rel.num_elements = 0
  /\ (op = "init" /\ rel.num_elements = 0)
       => (isEmpty(rel) /\ isNull(rel) /\ Visit(rel, begin(rel)) = <<>>)
  /\ (op = "iterate" /\ ~isNull(rel))
       => /\ begin(rel) = get(rel)
          /\ end(rel) = begin(rel) + rel.num_elements * rel.alignment
          /\ Len(dst) = rel.num_elements
          /\ \A i \in 1..Len(dst) : dst[i] = get(rel) + (i - 1) * rel.alignment
          /\ Visit(rel, begin(rel)) = dst

\* C22 witness: an array of MaxCount elements was iterated.
C22_Witness ==
  /\ op = "iterate"
  /\ ~isNull(rel)
  /\ rel.num_elements = MaxCount
  /\ Len(dst) = MaxCount
  /\ dst[1] = get(rel)

\* C23: an IOResult made of a magnitude below 2^(IOSizeBits - 3) and any of
\* the eight error codes gives back that magnitude and that code; made of a
\* code alone its magnitude is 0, made of a magnitude alone its code is
\* Success.
C23_ResultPackingLossless ==
  /\ Cardinality(IOErrorCode) = 8
  /\ (op = "IOResult(value, code)" /\ arg[1] < 2^(IOSizeBits - 3)) =>
       (Value(ret) = arg[1] /\ ErrorCode(ret) = arg[2])
  /\ op = "IOResult(code)" => (Value(ret) = 0 /\ ErrorCode(ret) = arg[2])
  /\ (op = "IOResult(value)" /\ arg[1] < 2^(IOSizeBits - 3)) =>
       (Value(ret) = arg[1] /\ ErrorCode(ret) = Success)

C23_Witness ==
  /\ op = "IOResult(value, code)"
  /\ arg = <<2^(IOSizeBits - 3) - 1, UnknownError>>
  /\ Value(ret) = 2^(IOSizeBits - 3) - 1
  /\ ErrorCode(ret) = UnknownError

\* C24: a Seek that succeeds returns as its magnitude the position it moved
\* the stream to, the one the next Read or Write starts at.
C24_SeekReturnsPosition ==
  (call.op = "Seek" /\ ErrorCode(call.ret) = Success) =>
    Value(call.ret) = ios.cursor

(***************************************************************************)
(* Properties of the chunk format.                                         *)
(***************************************************************************)
\* C25: a chunk written with a payload P and read back from the same bytes
\* gives the type id, the version and the data size written and a payload
\* equal to P, the checksum being found right.
C25_ChunkRoundTrip ==
  (chunk.phase = "written" /\ chunk.read # NoRead) =>
    /\ chunk.read.ret = Success
    /\ chunk.read.type_id = chunk.type_id
    /\ chunk.read.version = chunk.version
    /\ chunk.read.data_size = Len(chunk.payload)
    /\ chunk.read.payload = chunk.payload

C25_Witness ==
  /\ chunk.phase = "written"
  /\ chunk.read.ret = Success
  /\ Len(chunk.payload) = MaxPayload
  /\ chunk.read.payload = chunk.payload
  /\ chunk.type_id = MaxOf(ChunkTypeID)

\* C26: with one byte of the payload changed, or one bit of the footer's
\* checksum flipped, between writing and reading, the read reports
\* InvalidData and returns no payload.
C26_CorruptionDetected ==
  (chunk.phase \in {"payload corrupted", "footer corrupted"} /\ chunk.read # NoRead) =>
    (chunk.read.ret = InvalidData /\ chunk.read.payload = <<>>)

C26_Witness ==
  /\ chunk.phase = "payload corrupted"
  /\ chunk.read.ret = InvalidData
  /\ Len(chunk.payload) = MaxPayload
  /\ chunk.bytes[HeaderSize + MaxPayload] # chunk.payload[MaxPayload]

\* C27: the checksum in the footer of a written chunk is the crc32 of its
\* data_size payload bytes with the one seed, whatever the type id, the
\* version and the bytes outside the payload; the read path takes the same
\* seed, so that it finds the checksum right.
C27_ChecksumOfPayloadOnly ==
  chunk.phase = "written" =>
    LET seed == IF chunk.rev = "v1" THEN crc32_DefaultSeed ELSE chunk.seed
    IN /\ header_data_size(chunk.bytes) = Len(chunk.payload)
       /\ footer_crc32_checksum(chunk.bytes)
            = crc32(chunk.payload, Len(chunk.payload), seed)
       /\ \A type_id \in TypeIDs : \A version \in Versions :
            footer_crc32_checksum(writeChunk(chunk.rev, type_id, version, chunk.payload,
                                             chunk.seed))
              = footer_crc32_checksum(chunk.bytes)
       /\ readChunk(chunk.rev, chunk.bytes, chunk.seed).ret = Success

C27_Witness ==
  /\ chunk.phase = "written"
  /\ chunk.rev = "v2"
  /\ chunk.seed = 0
  /\ Len(chunk.payload) = MaxPayload
  /\ footer_crc32_checksum(chunk.bytes) # 0

(***************************************************************************)
(* Properties of two readers.                                              *)
(***************************************************************************)
\* What the calls on a reader in state w do: the outcomes of a read and of
\* refill.
CallsOn(w) == [reads |-> read(w, 1), refilled |-> refill(w)]

\* C28: a call on one of two readers over backends of their own leaves the
\* other reader's cursor, window and error state as they were, and with
\* them what every call on the other reader does and returns, also when
\* both readers have failed and their windows lie in s_ZeroBuffer, whose
\* bytes stay zero.
C28_ReadersDoNotInterfere ==
  [][/\ peer' # peer => (World' = World /\ CallsOn(World)' = CallsOn(World))
     /\ World' # World => (peer' = peer /\ CallsOn(peer)' = CallsOn(peer))
     /\ \A i \in 0..(ZeroBufSize - 1) :
          ByteAt(reader, ZeroBase + i)' = 0 /\ ByteAt(peer.r, ZeroBase + i)' = 0]_vars

C28_Witness ==
  /\ reader.refill_fn = "failure" /\ peer.r.refill_fn = "failure"
  /\ InZeroBuffer(reader) /\ InZeroBuffer(peer.r)
  /\ reader.last_result # peer.r.last_result
  /\ op = "read"

(***************************************************************************)
(* Properties of the file reader's refill.                                 *)
(***************************************************************************)
\* C29: after a refill of the file reader that succeeds, run with any
\* number of unread bytes in the window, the window holds from the cursor on
\* the bytes that were unread followed by the bytes newly read: the bytes
\* of the file from the first one not yet delivered up to the position of
\* the FILE; and a read delivers the bytes of the file that follow those
\* delivered before, in their order.
C29_FileRefillLosesNoData ==
  (FileBacked /\ proc = "running" /\ reader.refill_fn # "failure") =>
    /\ (op = "refill" /\ ret = Success) =>
         LET k == numBytesAvailable(reader)
         IN /\ taken + k = file.pos
            /\ BytesAt(reader, reader.cursor, k) = StreamBytes(taken, k)
    /\ (op = "read" /\ ret = Success) =>
         /\ taken = pre.taken + arg
         /\ dst = StreamBytes(pre.taken, arg)

(***************************************************************************)
(* Properties of the life of a ByteWriterView.                             *)
(***************************************************************************)
\* C30: once the callback of a ByteWriterView has returned a non-Success
\* result e, every later write() before the next end() returns e, does not
\* invoke the callback, leaves the vector as it is, and e stays the result
\* of the writes after it.
C30_WriterStickyUntilEnd ==
  [][(codec.failed # Success /\ codec'.nwrites = codec.nwrites + 1)
       => /\ ret' = codec.failed
          /\ codec'.ncallbacks = codec.ncallbacks
          /\ stream' = stream
          /\ codec'.failed = codec.failed
          /\ proc' = "running"]_vars

\* The second write after the callback failed, on a vector that holds the
\* bytes of an earlier write, has returned the failure without a callback.
C30_Witness ==
  /\ op = "write"
  /\ codec.failed = AllocationFailure
  /\ ret = AllocationFailure
  /\ codec.ncallbacks = codec.ncallbacks_before
  /\ codec.last_before = AllocationFailure
  /\ codec.nwrites >= codec.ncallbacks + 2
  /\ Len(stream) > 0

C32_ReadTerminates ==
  /\ proc # "hung"
  /\ (op = "read" /\ proc = "running") =>
       (Len(dst) <= arg /\ (ret = Success => Len(dst) = arg))

\* A read of several bytes over a file took more than one refill and came
\* to the end of the file before it had copied them all.
C32_Witness ==
  /\ op = "read"
  /\ FileBacked
  /\ arg = MaxRead
  /\ file.nreads >= 2
  /\ ret = EndOfStream
  /\ Len(dst) > 0 /\ Len(dst) < arg

\* C33: the vector behind byteWriterViewFromVector goes on holding its
\* initial content followed by the bytes of the writes that returned Success,
\* in the order of the calls, through every call; end() and a write that returns a failure (the one
\* that failed and the ones after it, until end()) leave the vector as it is.
C33_VectorAppendsInOrder ==
  [][/\ stream = codec.bytes => stream' = codec'.bytes
     /\ (op' = "end" \/ (codec'.nwrites = codec.nwrites + 1 /\ ret' # Success))
          => stream' = stream]_vars

\* Two writes, of one byte and of two, to a vector that held a byte; then a
\* write that failed, end(), and a write that succeeded.
C33_Witness ==
  /\ stream = <<3, 1, 2, 1, 1>>
  /\ op = "write" /\ ret = Success
  /\ codec.nwrites = 4
  /\ codec.nwrites_before = 3
  /\ codec.ncallbacks = 4

(***************************************************************************)
(* The errors of the file reader's refill.                                 *)
(***************************************************************************)
\* C34: a refill of the file reader on a file whose end-of-file indicator is
\* set reports EndOfStream and issues no physical read; a physical read that
\* delivers at least one byte leaves the error state and the refill function
\* as they were; a physical read that delivers no byte puts the reader into
\* the failure state, with EndOfStream when the end-of-file indicator is set
\* after it, ReadError when only the error indicator is, UnknownError
\* otherwise.
C34_RefillErrorClassification ==
  [][LET physical == file'.nreads = file.nreads + 1
         delivered == file'.pos - file.pos
     IN (reader.refill_fn \in {"cfile_v1", "cfile_v2"} /\ op' = "refill"
           /\ proc' = "running")
          => /\ file.eof =>
                  /\ file' = file
                  /\ ret' = EndOfStream
                  /\ reader'.last_result = EndOfStream
                  /\ reader'.refill_fn = "failure"
             /\ (physical /\ delivered > 0) =>
                  /\ ret' = Success
                  /\ reader'.last_result = reader.last_result
                  /\ reader'.refill_fn = reader.refill_fn
             /\ (physical /\ delivered = 0) =>
                  /\ ret' = (IF file'.eof THEN EndOfStream
                             ELSE IF file'.err THEN ReadError
                             ELSE UnknownError)
                  /\ reader'.last_result = ret'
                  /\ reader'.refill_fn = "failure"]_vars

\* A refill whose physical read delivered nothing and set the error
\* indicator only has put the reader into the failure state with ReadError.
C34_Witness ==
  /\ FileBacked
  /\ op = "refill"
  /\ ret = ReadError
  /\ file.nreads = pre.nreads + 1
  /\ file.err /\ ~file.eof
  /\ reader.refill_fn = "failure"
  /\ reader.last_result = ReadError
  /\ taken > 0

(***************************************************************************)
(* Properties of a copied rel_ptr.                                         *)
(***************************************************************************)
\* C35: a copy of a relative pointer made at another address has the
\* offset of the original; the copy of a null pointer is null; the copy of
\* a non-null pointer points to the original's target plus the distance
\* from the original to the copy, which is the original's target only when
\* the two are at the same address; nothing stops the program.
C35_CopyHazard ==
  op = "copy" =>
    LET distance == TheCopy.self - rel.self
    IN /\ TheCopy.self = arg
       /\ TheCopy.offset = rel.offset
       /\ rel.offset = rel.was
       /\ proc = "running"
       /\ isNull(rel) => (isNull(TheCopy) /\ get(TheCopy) = NullPtr)
       /\ ~isNull(rel) =>
            /\ get(TheCopy) = get(rel) + distance
            /\ get(TheCopy) = get(rel) <=> distance = 0

\* A pointer of the newer header with stride 2 and a negative offset was
\* copied to an address one byte on: the copy misses the target by a byte.
C35_Witness ==
  /\ op = "copy"
  /\ rel.rev = "v2"
  /\ rel.alignment = 2
  /\ rel.offset < 0
  /\ ~isNull(rel)
  /\ TheCopy.self = rel.self + 1
  /\ get(TheCopy) = get(rel) + 1

\* C36: for a byte distance d, of either sign, that the range assertion of
\* the newer header lets through, the alignment assertion of the assignment
\* accepts d exactly when d is a whole multiple of the stride, and the
\* offset stored is then d / stride.
C36_AlignmentCheckExact ==
  (/\ AssignedAddress
   /\ rel.rev = "v2"
   /\ Delta >= k_OffsetMin(rel) /\ Delta < k_OffsetMax(rel))
    => /\ proc = "running" <=> Delta % rel.alignment = 0
       /\ proc = "running" =>
            (rel.offset * rel.alignment = Delta /\ rel.offset = Delta \div rel.alignment)

(***************************************************************************)
(* Properties of the Seek slot of the vector stream.                       *)
(***************************************************************************)
\* The last call was a Seek that reached the Seek slot of a vector stream.
VectorSeekCalled ==
  /\ call.op = "Seek"
  /\ call.from.kind = "vector"
  /\ call.from.error_state = Success

\* The position the last Seek asked for: its offset from the beginning, the
\* cursor or the end of the vector as they were before the call.
FinalSeekPos ==
  call.arg + (IF call.origin = "CURRENT" THEN call.from.cursor
              ELSE IF call.origin = "END" THEN Len(call.from.data)
              ELSE 0)

\* C37: a Seek of the vector stream to a position p >= 0 that succeeds
\* has set the cursor to p; with p beyond the size the vector has been
\* resized to exactly p and holds the bytes it had in front; with
\* 0 <= p <= size the Seek succeeds and the vector is as it was.
C37_SeekGrowsVector ==
  (VectorSeekCalled /\ FinalSeekPos >= 0) =>
    /\ FinalSeekPos <= Len(call.from.data) =>
         (ErrorCode(call.ret) = Success /\ ios.data = call.from.data)
    /\ ErrorCode(call.ret) = Success =>
         /\ ios.cursor = FinalSeekPos
         /\ FinalSeekPos > Len(call.from.data) =>
              /\ Len(ios.data) = FinalSeekPos
              /\ SubSeq(ios.data, 1, Len(call.from.data)) = call.from.data

\* A Seek from the end of a vector that holds bytes has grown it.
C37_Witness ==
  /\ VectorSeekCalled
  /\ call.origin = "END"
  /\ call.arg > 0
  /\ Len(call.from.data) > 0
  /\ ErrorCode(call.ret) = Success
  /\ Len(ios.data) = Len(call.from.data) + call.arg
  /\ ios.cursor = Len(ios.data)

\* C38: a Seek of the vector stream to a negative position returns
\* SeekError and leaves the cursor and the vector as they were; a Seek that
\* fails because the vector cannot grow returns AllocationFailure or
\* UnknownError and leaves the cursor (and the vector) as they were.
C38_SeekErrorLeavesState ==
  VectorSeekCalled =>
    /\ FinalSeekPos < 0 =>
         /\ ErrorCode(call.ret) = SeekError
         /\ ios.cursor = call.from.cursor
         /\ ios.data = call.from.data
    /\ ErrorCode(call.ret) \in {AllocationFailure, UnknownError} =>
         /\ FinalSeekPos > Len(call.from.data)
         /\ ios.cursor = call.from.cursor
         /\ ios.data = call.from.data
    /\ ErrorCode(call.ret) = SeekError => FinalSeekPos < 0

\* A Seek backwards from a cursor inside the vector to before its beginning.
C38_Witness ==
  /\ VectorSeekCalled
  /\ call.origin = "CURRENT"
  /\ call.from.cursor > 0
  /\ FinalSeekPos < 0
  /\ ErrorCode(call.ret) = SeekError
  /\ ios.cursor = call.from.cursor

(***************************************************************************)
(* Properties of the byte swaps.                                           *)
(***************************************************************************)
\* C39: byteSwap16, byteSwap32 and byteSwap64 return, on every path of
\* every build, the value with its bytes in the reverse order, which is what
\* the portable function of the same width returns; swapping the result
\* again gives the value back.
C39_ByteSwapReverses ==
  op = "byteSwap" =>
    LET T == arg[1]
        rev == arg[2]
        path == arg[3]
        value == arg[4]
    IN /\ ret = bswap(T, value)
       /\ ret = byteSwap_portable(T, value)
       /\ \A i \in 0..(T.size - 1) : ByteOf(T, ret, i) = ByteOf(T, value, T.size - 1 - i)
       /\ byteSwap(T, rev, path, ret) = value

(***************************************************************************)
(* Properties of the accumulated result.                                   *)
(***************************************************************************)
\* The last result of a sequence that is not Success; Success if all are.
RECURSIVE MostRecentFailure(_)
MostRecentFailure(results) ==
  IF results = <<>> THEN Success
  ELSE IF results[Len(results)] # Success THEN results[Len(results)]
  ELSE MostRecentFailure(SubSeq(results, 1, Len(results) - 1))

\* C40: a += b leaves a as it is when b is Success and makes it b
\* otherwise; a variable that starts as Success and has a sequence of
\* results added is Success exactly when all of them are, and is the most
\* recent result that is not Success otherwise.
C40_ResultAccumulation ==
  [][(op' = "+=")
       => /\ ret' = (IF arg' = Success THEN ret ELSE arg')
          /\ ret' = Success <=> \A i \in 1..Len(dst') : dst'[i] = Success
          /\ ret' = MostRecentFailure(dst')]_vars

\* Two different failures and then a success have been added: the variable
\* holds the second failure.
C40_Witness ==
  /\ op = "+="
  /\ Len(dst) = 3
  /\ dst[1] = EndOfStream /\ dst[2] = ReadError /\ dst[3] = Success
  /\ ret = ReadError

=============================================================================
